---- MODULE Spec2Model ----
(***************************************************************************)
(* Model of the job-recommendation backend's matching engine               *)
(* (app/routers/recommendations.py): the rule-based scorer of              *)
(* POST /recommendations, the older scorer of GET /recommendations/{id},   *)
(* and the stored users and jobs they read; the vector search of           *)
(* app/crud.py; the profile updates of app/routers/users.py and            *)
(* app/crud.py with the profile embedding they maintain.                   *)
(*                                                                         *)
(* Strings are sequences of one-character strings, so that lower(),        *)
(* strip() and Python's substring test `a in b` are computed, not assumed. *)
(* Time is counted in whole days.                                          *)
(* A record constructor lists its fields in the order TLC keeps them       *)
(* (the order in which the names first occur in this module).              *)
(***************************************************************************)
EXTENDS Integers, Sequences, FiniteSets, TLC

VARIABLES users, jobs, now, request, response, scored

vars == <<users, jobs, now, request, response, scored>>

(***************************************************************************)
(* Python values                                                           *)
(***************************************************************************)

\* Python's None in a string-typed column or field.
None == <<"None">>

\* Python's None in a list-typed (JSON) column.
NoneList == <<None>>

\* Truthiness of an Optional[str]: None and "" are falsy.
Truthy(s) == s # None /\ s # <<>>

\* `xs or []` for a nullable JSON list column.
OrEmpty(xs) == IF xs = NoneList THEN <<>> ELSE xs

\* `s or ""` for a nullable string column.
OrBlank(s) == IF s = None THEN <<>> ELSE s

LowerMap ==
    ("A" :> "a") @@ ("C" :> "c") @@ ("D" :> "d") @@ ("E" :> "e") @@
    ("I" :> "i") @@ ("L" :> "l") @@ ("M" :> "m") @@ ("P" :> "p") @@
    ("Q" :> "q") @@ ("R" :> "r") @@ ("S" :> "s") @@ ("G" :> "g")

\* str.lower(), character by character.
Lower(s) == [i \in 1..Len(s) |-> IF s[i] \in DOMAIN LowerMap THEN LowerMap[s[i]] ELSE s[i]]

Whitespace == {" "}

\* str.strip(): drop leading and trailing whitespace.
Strip(s) ==
    LET keep == {i \in 1..Len(s) : s[i] \notin Whitespace}
        Lo == CHOOSE i \in keep : \A j \in keep : i <= j
        Hi == CHOOSE i \in keep : \A j \in keep : j <= i
    IN IF keep = {} THEN <<>> ELSE SubSeq(s, Lo, Hi)

\* [x.lower().strip() for x in xs]
LowerStripAll(xs) == [i \in 1..Len(xs) |-> Strip(Lower(xs[i]))]

\* Python's `a in b` on strings: a occurs in b as a contiguous substring
\* (the empty string occurs in every string, at offset 0).
IsSubstr(a, b) == \E i \in 0..(Len(b) - Len(a)) : SubSeq(b, i + 1, i + Len(a)) = a

Range(xs) == {xs[i] : i \in 1..Len(xs)}

\* xs[:n] for n >= 0
Take(xs, n) == SubSeq(xs, 1, IF n < Len(xs) THEN n ELSE Len(xs))

\* xs[:n] for any integer n: a negative n drops the last -n elements.
PySlice(xs, n) ==
    IF n >= 0 THEN Take(xs, n)
    ELSE IF Len(xs) + n > 0 THEN SubSeq(xs, 1, Len(xs) + n) ELSE <<>>

Min(a, b) == IF a < b THEN a ELSE b

RECURSIVE SumSeq(_)
SumSeq(xs) == IF xs = <<>> THEN 0 ELSE xs[1] + SumSeq(Tail(xs))

\* The orders in which iterating a set of strings can yield its elements
\* (list(set): decided by the interpreter's string hashing).
Orders(S) ==
    {p \in [1..Cardinality(S) -> S] : \A i, j \in 1..Cardinality(S) : p[i] = p[j] => i = j}

(***************************************************************************)
(* The rule-based scorer of POST /recommendations                          *)
(* (get_recommendations, the body of `for job in all_jobs`)                *)
(***************************************************************************)

\* The per-skill value of the older scorer (GET /recommendations/{user_id}).
GET_SKILL_POINTS == 20

SKILL_POINTS == 25
TITLE_SKILL_POINTS == 15
DESCRIPTION_SKILL_POINTS == 5
TITLE_MATCH_POINTS == 30
LOCATION_POINTS == 20
EXPERIENCE_POINTS == 15
RECENT_POINTS == 10
FAIRLY_RECENT_POINTS == 5
REMOTE_POINTS == 8
RECENT_DAYS == 7
FAIRLY_RECENT_DAYS == 14
MIN_SCORE == 10
MAX_POINTS == 150
MAX_REASONS == 4
SKILLS_LISTED == 3
TITLE_SKILLS_LISTED == 2
LOOKBACK_DAYS == 60
POOL_LIMIT == 500

\* One entry of match_reasons: the rule that produced it and what its text
\* names (a count and a list of strings; the text's fixed wording is left out).
Reason(rule, n, listed) == [n |-> n, rule |-> rule, listed |-> listed]

NoPoints == [pts |-> 0, reasons |-> <<>>]

\* job_skills_lower
JobSkillsLower(job) == LowerStripAll(OrEmpty(job.skills))

\* job_description_lower
JobDescriptionLower(job) == IF Truthy(job.description) THEN Lower(job.description) ELSE <<>>

\* matching_skills = set(user_skills) & set(job_skills_lower)
MatchingSkills(user_skills, job) == Range(user_skills) \cap Range(JobSkillsLower(job))

\* Variant: skills already matched against the job's skill list are left out.
SkillsInTitleUncounted(user_skills, job) ==
    SelectSeq(user_skills,
              LAMBDA skill : /\ IsSubstr(skill, Lower(job.title))
                             /\ skill \notin Range(LowerStripAll(OrEmpty(job.skills))))

\* skills_in_title = [skill for skill in user_skills if skill in job_title_lower]
SkillsInTitle(user_skills, job) ==
    SelectSeq(user_skills, LAMBDA skill : IsSubstr(skill, Lower(job.title)))

\* skills_in_description = [skill for skill in user_skills
\*     if skill in job_description_lower and skill not in matching_skills]
SkillsInDescription(user_skills, job) ==
    SelectSeq(user_skills,
              LAMBDA skill : /\ IsSubstr(skill, JobDescriptionLower(job))
                             /\ skill \notin MatchingSkills(user_skills, job))

\* if matching_skills: 25 per skill, one reason listing list(matching_skills)[:3];
\* ord is the order in which the set is iterated.
SkillRule(user_skills, job, ord) ==
    LET matching_skills == MatchingSkills(user_skills, job)
        as_list == SelectSeq(ord, LAMBDA s : s \in matching_skills)
    IN IF matching_skills # {}
       THEN [pts |-> Cardinality(matching_skills) * SKILL_POINTS,
             reasons |-> <<Reason("skills", Cardinality(matching_skills),
                                  Take(as_list, SKILLS_LISTED))>>]
       ELSE NoPoints

\* if skills_in_title: 15 per entry, one reason listing skills_in_title[:2]
TitleSkillRule(user_skills, job) ==
    LET skills_in_title == SkillsInTitle(user_skills, job)
    IN IF skills_in_title # <<>>
       THEN [pts |-> Len(skills_in_title) * TITLE_SKILL_POINTS,
             reasons |-> <<Reason("skills_in_title", Len(skills_in_title),
                                  Take(skills_in_title, TITLE_SKILLS_LISTED))>>]
       ELSE NoPoints

\* Variant: the description rule without the `len(match_reasons) < 2` test.
DescriptionSkillRuleUnconditional(user_skills, job, n_reasons) ==
    LET found == SelectSeq(user_skills,
                           LAMBDA skill :
                               /\ IsSubstr(skill, Lower(OrBlank(job.description)))
                               /\ skill \notin Range(LowerStripAll(OrEmpty(job.skills))))
    IN IF found # <<>>
       THEN [pts |-> Len(found) * 5,
             reasons |-> <<[n |-> Len(found), rule |-> "skills_in_description",
                            listed |-> SubSeq(found, 1, IF Len(found) < 2 THEN Len(found) ELSE 2)]>>]
       ELSE [pts |-> 0, reasons |-> <<>>]

\* if skills_in_description and len(match_reasons) < 2: 5 per entry, one reason
DescriptionSkillRule(user_skills, job, n_reasons) ==
    LET skills_in_description == SkillsInDescription(user_skills, job)
    IN IF skills_in_description # <<>> /\ n_reasons < 2
       THEN [pts |-> Len(skills_in_description) * DESCRIPTION_SKILL_POINTS,
             reasons |-> <<Reason("skills_in_description", Len(skills_in_description),
                                  Take(skills_in_description, TITLE_SKILLS_LISTED))>>]
       ELSE NoPoints

\* for x in wanted: if x in text: score += pts; reason; break
FirstSubstrRule(rule, wanted, text, pts) ==
    LET hits == {i \in 1..Len(wanted) : IsSubstr(wanted[i], text)}
        first == CHOOSE i \in hits : \A j \in hits : i <= j
    IN IF hits # {}
       THEN [pts |-> pts, reasons |-> <<Reason(rule, 1, <<wanted[first]>>)>>]
       ELSE NoPoints

\* 2. JOB TITLE MATCHING
TitleMatchRule(user_job_titles, job) ==
    FirstSubstrRule("title", user_job_titles, Lower(job.title), TITLE_MATCH_POINTS)

\* 3. LOCATION MATCHING; job_location_lower = job.location.lower() if job.location else ""
LocationRule(user_locations, job) ==
    FirstSubstrRule("location", user_locations,
                    IF Truthy(job.location) THEN Lower(job.location) ELSE <<>>,
                    LOCATION_POINTS)

\* Variant: only `user_experience_level in job_exp_lower` is tested.
ExperienceRuleOneWay(user_experience_level, job) ==
    IF /\ user_experience_level # <<>>
       /\ job.experience_level # None /\ job.experience_level # <<>>
       /\ IsSubstr(user_experience_level, Lower(job.experience_level))
    THEN [pts |-> 15, reasons |-> <<[n |-> 1, rule |-> "experience",
                                     listed |-> <<job.experience_level>>]>>]
    ELSE [pts |-> 0, reasons |-> <<>>]

\* 4. EXPERIENCE LEVEL MATCHING
ExperienceRule(user_experience_level, job) ==
    IF /\ user_experience_level # <<>>
       /\ Truthy(job.experience_level)
       /\ \/ IsSubstr(user_experience_level, Lower(job.experience_level))
          \/ IsSubstr(Lower(job.experience_level), user_experience_level)
    THEN [pts |-> EXPERIENCE_POINTS,
          reasons |-> <<Reason("experience", 1, <<job.experience_level>>)>>]
    ELSE NoPoints

\* Variant: the bounds the comment on line 168 gives (< 7 days, < 14 days).
RecencyRuleStrict(job, today) ==
    IF today - job.created_at < 7
    THEN [pts |-> 10, reasons |-> <<[n |-> today - job.created_at, rule |-> "recency",
                                     listed |-> <<>>]>>]
    ELSE IF today - job.created_at < 14
    THEN [pts |-> 5, reasons |-> <<>>]
    ELSE [pts |-> 0, reasons |-> <<>>]

\* 5. RECENCY BONUS; days_old = (datetime.utcnow() - job.created_at).days
RecencyRule(job, today) ==
    LET days_old == today - job.created_at
    IN IF days_old <= RECENT_DAYS
       THEN [pts |-> RECENT_POINTS, reasons |-> <<Reason("recency", days_old, <<>>)>>]
       ELSE IF days_old <= FAIRLY_RECENT_DAYS
       THEN [pts |-> FAIRLY_RECENT_POINTS, reasons |-> <<>>]
       ELSE NoPoints

\* 6. REMOTE WORK BONUS
RemoteRule(job) ==
    IF job.remote
    THEN [pts |-> REMOTE_POINTS, reasons |-> <<Reason("remote", 1, <<>>)>>]
    ELSE NoPoints

\* One iteration of `for job in all_jobs`: the rules in the order the code
\* runs them.  rule_points[i] is what the i-th rule added to score;
\* all_reasons is match_reasons when the iteration reaches line 182.
ScoreJob(user_skills, user_job_titles, user_locations, user_experience_level, job, today, ord) ==
    LET r1 == SkillRule(user_skills, job, ord)
        r2 == TitleSkillRule(user_skills, job)
        r3 == DescriptionSkillRule(user_skills, job, Len(r1.reasons) + Len(r2.reasons))
        r4 == TitleMatchRule(user_job_titles, job)
        r5 == LocationRule(user_locations, job)
        r6 == ExperienceRule(user_experience_level, job)
        r7 == RecencyRule(job, today)
        r8 == RemoteRule(job)
        rule_points == <<r1.pts, r2.pts, r3.pts, r4.pts, r5.pts, r6.pts, r7.pts, r8.pts>>
    IN [rule_points |-> rule_points, job_id |-> job.id, score |-> SumSeq(rule_points),
        all_reasons |-> r1.reasons \o r2.reasons \o r3.reasons \o r4.reasons
                        \o r5.reasons \o r6.reasons \o r7.reasons \o r8.reasons]

\* Scores s below MAX_POINTS for which the double (s / 150) * 100 is just
\* below the integer s * 100 / 150, so that int() yields one less
\* (87 / 150 = 0.58 and 0.58 * 100 = 57.99999999999999).
FloatShortfall == {87}

\* Variant: the percentage without the cap at 100.
MatchPercentageUncapped(score) == (score * 100) \div 150

\* Variant: round() instead of int().
MatchPercentageRounded(score) == Min((score * 100 + 75) \div 150, 100)

\* min(int((score / 150) * 100), 100)
MatchPercentage(score) ==
    LET exact == (score * 100) \div MAX_POINTS
        truncated == IF score \in FloatShortfall THEN exact - 1 ELSE exact
    IN Min(truncated, 100)

\* Variant: the test the comment on line 182 describes (score > 10).
IncludedStrict(score) == score > 10

\* if score >= 10
Included(score) == score >= MIN_SCORE

\* Variant: the last four reasons are kept instead of the first four.
EntryLastReasons(s) ==
    [job_id |-> s.job_id,
     match_score |-> s.score,
     match_percentage |-> Min((s.score * 100) \div 150, 100),
     match_reasons |-> IF Len(s.all_reasons) > 4
                       THEN SubSeq(s.all_reasons, Len(s.all_reasons) - 3, Len(s.all_reasons))
                       ELSE s.all_reasons]

\* The dict appended to recommendations (the job's display fields are left out).
Entry(s) ==
    [job_id |-> s.job_id,
     match_score |-> s.score,
     match_percentage |-> MatchPercentage(s.score),
     match_reasons |-> Take(s.all_reasons, MAX_REASONS)]

(***************************************************************************)
(* Ranking and response shaping                                            *)
(***************************************************************************)

\* Variant: an unstable descending sort (e goes before the elements that tie
\* with it).
RECURSIVE InsertByScoreBeforeTies(_, _)
InsertByScoreBeforeTies(sorted, e) ==
    IF sorted = <<>> THEN <<e>>
    ELSE IF sorted[1].match_score > e.match_score
         THEN <<sorted[1]>> \o InsertByScoreBeforeTies(Tail(sorted), e)
         ELSE <<e>> \o sorted

\* Where list.sort(key=match_score, reverse=True) puts e in an already sorted
\* list when the elements are inserted in their original order: after every
\* element whose score is at least e's (reverse=True keeps the sort stable).
RECURSIVE InsertByScore(_, _)
InsertByScore(sorted, e) ==
    IF sorted = <<>> THEN <<e>>
    ELSE IF sorted[1].match_score >= e.match_score
         THEN <<sorted[1]>> \o InsertByScore(Tail(sorted), e)
         ELSE <<e>> \o sorted

\* recommendations.sort(key=lambda x: x["match_score"], reverse=True)
RECURSIVE SortByScore(_)
SortByScore(recs) ==
    IF recs = <<>> THEN <<>>
    ELSE InsertByScore(SortByScore(SubSeq(recs, 1, Len(recs) - 1)), recs[Len(recs)])

\* recommendations = recommendations[:query.limit]
Truncate(recs, limit) == PySlice(recs, limit)

NoTotal == -1

\* What a handler returns, with the request it answers (op, user_id, limit)
\* and the time at which it was handled (at).
Response(op, user_id, limit, status, recs, total, message) ==
    [limit |-> limit, op |-> op, user_id |-> user_id, status |-> status, message |-> message,
     at |-> now, recommendations |-> recs, total_matches |-> total]

\* raise HTTPException(status_code=..., detail=...)
HttpError(op, user_id, limit, status, detail) ==
    Response(op, user_id, limit, status, <<>>, NoTotal, detail)

\* "total_matches": len(recommendations), read after the list was truncated
PostTotalMatches(recs, limited) == Len(limited)

(***************************************************************************)
(* Stored data                                                             *)
(***************************************************************************)

\* cutoff_date = utcnow() - timedelta(days=60); Job.created_at >= cutoff_date
InWindow(job, today) == job.created_at >= today - LOOKBACK_DAYS

\* xs[::-1]
RECURSIVE Reverse(_)
Reverse(xs) == IF xs = <<>> THEN <<>> ELSE Append(Reverse(Tail(xs)), xs[1])

\* select(Job).where(Job.created_at >= cutoff_date)
\*            .order_by(Job.created_at.desc()).limit(500)
\* Rows are stored in insertion order and created_at is the clock reading at
\* insertion (microseconds, of which the model keeps the day), so descending
\* created_at is the reverse of insertion order.
RecentJobs(stored, today) ==
    Take(Reverse(SelectSeq(stored, LAMBDA j : InWindow(j, today))), POOL_LIMIT)

NoUserId == "none"

(***************************************************************************)
(* POST /recommendations                                                   *)
(***************************************************************************)

\* Variant: a loop that keeps no job is answered 404 instead of an empty list.
PostRankedNotFoundWhenEmpty(user_id, limit, loop) ==
    LET included == SelectSeq(loop, LAMBDA s : s.score >= 10)
        recommendations ==
            [i \in 1..Len(included) |->
               [job_id |-> included[i].job_id,
                match_score |-> included[i].score,
                match_percentage |-> Min((included[i].score * 100) \div 150, 100),
                match_reasons |-> SubSeq(included[i].all_reasons, 1,
                                         Min(4, Len(included[i].all_reasons)))]]
        limited == PySlice(SortByScore(recommendations), limit)
    IN IF limited = <<>>
       THEN [limit |-> limit, op |-> "post", user_id |-> user_id, status |-> 404,
             message |-> "No matching jobs", at |-> now, recommendations |-> <<>>,
             total_matches |-> -1]
       ELSE [limit |-> limit, op |-> "post", user_id |-> user_id, status |-> 200,
             message |-> "found", at |-> now, recommendations |-> limited,
             total_matches |-> Len(limited)]

\* The dict get_recommendations returns after the scoring loop, with the
\* loop's per-job values.
PostRanked(user_id, limit, loop) ==
    LET included == SelectSeq(loop, LAMBDA s : Included(s.score))
        recommendations == [i \in 1..Len(included) |-> Entry(included[i])]
        limited == Truncate(SortByScore(recommendations), limit)
    IN Response("post", user_id, limit, 200, limited,
                PostTotalMatches(recommendations, limited),
                IF limited # <<>> THEN "found" ELSE "no_matching_jobs")

\* Variant: the handler stores the normalised skills it scored with.
PostRecommendationsStoringSkills(user_id, limit) ==
    /\ UNCHANGED <<jobs, now>>
    /\ scored' = <<>>
    /\ IF user_id \notin DOMAIN users
       THEN /\ response' = HttpError("post", user_id, limit, 404, "User not found")
            /\ UNCHANGED users
       ELSE /\ users' = [users EXCEPT ![user_id].skills = LowerStripAll(OrEmpty(@))]
            /\ response' = Response("post", user_id, limit, 200, <<>>, 0, "complete_profile")

\* get_recommendations(query, db), the handler of POST /recommendations: it
\* reads the user and the recent jobs and writes no row.
PostRecommendations(user_id, limit) ==
    /\ UNCHANGED <<users, jobs, now>>
    /\ IF user_id = NoUserId
       THEN /\ response' = HttpError("post", user_id, limit, 400, "user_id is required")
            /\ scored' = <<>>
       ELSE IF user_id \notin DOMAIN users
       THEN /\ response' = HttpError("post", user_id, limit, 404, "User not found")
            /\ scored' = <<>>
       ELSE
         LET user == users[user_id]
             user_skills == LowerStripAll(OrEmpty(user.skills))
             user_job_titles == LowerStripAll(OrEmpty(user.preferred_job_titles))
             user_locations == LowerStripAll(OrEmpty(user.preferred_locations))
             user_experience_level == Lower(OrBlank(user.experience_level))
         IN IF user_skills = <<>> /\ user_job_titles = <<>> /\ user_locations = <<>>
            THEN /\ response' = Response("post", user_id, limit, 200, <<>>, 0, "complete_profile")
                 /\ scored' = <<>>
            ELSE LET all_jobs == RecentJobs(jobs, now) IN
                   IF all_jobs = <<>>
                   THEN /\ response' = Response("post", user_id, limit, 200, <<>>, 0, "no_jobs")
                        /\ scored' = <<>>
                   ELSE \E ord \in Orders(Range(user_skills)) :
                          LET loop == [i \in 1..Len(all_jobs) |->
                                         ScoreJob(user_skills, user_job_titles, user_locations,
                                                  user_experience_level, all_jobs[i], now, ord)]
                          IN /\ scored' = loop
                             /\ response' = PostRanked(user_id, limit, loop)

\* schemas.RecommendationQuery, the JSON body of POST /recommendations.
\* user_id_set tells whether the body has a "user_id" key at all; without the
\* key the field keeps its default None.  (min_score, job_type, location and
\* remote_only are parsed and never read by the handler.)
RecommendationQuery(query, user_id_set, user_id, limit) ==
    [limit |-> limit, user_id |-> user_id, query |-> query, user_id_set |-> user_id_set]

NoRequest == RecommendationQuery(None, FALSE, NoUserId, 0)

\* Variant: the validator also refuses a body that has both a query and a
\* user id.
CheckExactlyOneOfQueryAndUser(body) ==
    /\ ~(body.user_id_set /\ body.user_id = "none" /\ (body.query = None \/ body.query = <<>>))
    /\ ~(body.user_id # "none" /\ body.query # None /\ body.query # <<>>)

\* @validator('query', 'user_id') check_query_or_user(cls, v, values).
\* The validator runs on values the body supplies, not on defaults.  For
\* query, the first field, `values` is still empty and v is returned.  For
\* user_id, `values` holds query: the body is refused when its user_id is
\* null and its query is None or "".
CheckQueryOrUser(body) ==
    ~(body.user_id_set /\ body.user_id = NoUserId /\ ~Truthy(body.query))

\* limit: int = Field(10, ge=1, le=100)
LimitInRange(body) == body.limit >= 1 /\ body.limit <= 100

\* POST /recommendations: the body is validated into a RecommendationQuery
\* (a failure is answered 422 before the handler runs), then
\* get_recommendations handles it.
PostRecommendationQuery(body) ==
    /\ request' = body
    /\ IF CheckQueryOrUser(body) /\ LimitInRange(body)
       THEN PostRecommendations(body.user_id, body.limit)
       ELSE /\ response' = HttpError("post", body.user_id, body.limit, 422, "validation error")
            /\ scored' = <<>>
            /\ UNCHANGED <<users, jobs, now>>

(***************************************************************************)
(* GET /recommendations/{user_id}                                          *)
(***************************************************************************)

\* Variant: a missing user is read as a user without skills.
GetRecommendationsForUserWithoutLookup(user_id, limit) ==
    /\ UNCHANGED <<users, jobs, now>>
    /\ request' = [limit |-> 0, user_id |-> "none", query |-> None, user_id_set |-> FALSE]
    /\ scored' = <<>>
    /\ IF user_id \notin DOMAIN users \/ users[user_id].skills \in {<<None>>, <<>>}
       THEN response' = [limit |-> limit, op |-> "get", user_id |-> user_id, status |-> 200,
                         message |-> "no_skills", at |-> now, recommendations |-> <<>>,
                         total_matches |-> -1]
       ELSE IF jobs = <<>>
       THEN response' = [limit |-> limit, op |-> "get", user_id |-> user_id, status |-> 200,
                         message |-> "no_jobs", at |-> now, recommendations |-> <<>>,
                         total_matches |-> -1]
       ELSE response' = [limit |-> limit, op |-> "get", user_id |-> user_id, status |-> 500,
                         message |-> "Failed to generate recommendations", at |-> now,
                         recommendations |-> <<>>, total_matches |-> -1]

\* get_recommendations_for_user.  With a user who has skills and a non-empty
\* jobs table the body of `for job in all_jobs` runs, and for every job it
\* reads job.posted_date (line 358) before anything is appended: models.Job
\* declares no such column, the read raises AttributeError, and
\* `except Exception` (line 401) turns it into HTTP 500.  Nothing after the
\* loop (sort, truncation, total_matches) is reached.
GetRecommendationsForUser(user_id, limit) ==
    /\ UNCHANGED <<users, jobs, now>>
    /\ request' = NoRequest
    /\ scored' = <<>>
    /\ IF user_id \notin DOMAIN users
       THEN response' = HttpError("get", user_id, limit, 404, "User not found")
       ELSE IF OrEmpty(users[user_id].skills) = <<>>
       THEN response' = Response("get", user_id, limit, 200, <<>>, NoTotal, "no_skills")
       ELSE IF jobs = <<>>
       THEN response' = Response("get", user_id, limit, 200, <<>>, NoTotal, "no_jobs")
       ELSE response' = HttpError("get", user_id, limit, 500,
                                  "Failed to generate recommendations")

(***************************************************************************)
(* Inputs                                                                  *)
(***************************************************************************)

python == <<"p", "y", "t", "h", "o", "n">>
Python_ == <<"P", "y", "t", "h", "o", "n", " ">>
sql == <<"s", "q", "l">>
SQL_ == <<"S", "Q", "L", " ">>
git == <<"g", "i", "t">>
django == <<"d", "j", "a", "n", "g", "o">>
PythonEngineer == <<"P", "y", "t", "h", "o", "n", " ", "E", "n", "g", "i", "n", "e", "e", "r">>
SqlAnalyst == <<"S", "Q", "L", " ", "A", "n", "a", "l", "y", "s", "t">>
Clerk == <<"C", "l", "e", "r", "k">>
PythonAndSql == <<"p", "y", "t", "h", "o", "n", " ", "a", "n", "d", " ", "s", "q", "l">>
OfficeWork == <<"o", "f", "f", "i", "c", "e", " ", "w", "o", "r", "k">>
Engineer_ == <<"E", "n", "g", "i", "n", "e", "e", "r", " ">>
Chennai == <<"C", "h", "e", "n", "n", "a", "i">>
ChennaiIndia == <<"C", "h", "e", "n", "n", "a", "i", ",", " ", "I", "n", "d", "i", "a">>
Senior == <<"S", "e", "n", "i", "o", "r">>
SeniorLevel == <<"s", "e", "n", "i", "o", "r", " ", "l", "e", "v", "e", "l">>

MaxUserSkills == 2
MaxJobs == 3
MaxLimit == 2
MaxNow == 31

\* The sequences over S of length at most n.
SeqsUpTo(S, n) == UNION {[1..k -> S] : k \in 0..n}

User(skills, titles, locations, level) ==
    [skills |-> skills, experience_level |-> level, preferred_job_titles |-> titles,
     preferred_locations |-> locations]

JobRow(id, title, description, skills, location, level, remote, created_at) ==
    [skills |-> skills, description |-> description, title |-> title, location |-> location,
     experience_level |-> level, created_at |-> created_at, remote |-> remote, id |-> id]

UserIds == {"u1"}
UnknownUserId == "u0"

\* Profiles a client can store (UserCreate / UserUpdate).
Profiles ==
    {User(<<Python_, sql>>, <<Engineer_>>, <<>>, None),
     User(NoneList, NoneList, NoneList, None)}

\* Job postings a client can store (JobCreate), before id and created_at.
JobInputs ==
    {[skills |-> <<python, django>>, description |-> PythonAndSql, title |-> PythonEngineer,
      location |-> None, experience_level |-> None, remote |-> TRUE],
     [skills |-> <<SQL_>>, description |-> OfficeWork, title |-> SqlAnalyst,
      location |-> ChennaiIndia, experience_level |-> SeniorLevel, remote |-> FALSE],
     [skills |-> NoneList, description |-> OfficeWork, title |-> Clerk, location |-> None,
      experience_level |-> None, remote |-> FALSE]}

TickDays == {31}

PostLimits == 1..Min(MaxLimit, 100)
GetLimits == -1..MaxLimit

(***************************************************************************)
(* The state machine: stored users and jobs, the clock, and the response   *)
(* of the request handled last (scored: its scoring loop's per-job values) *)
(***************************************************************************)

NoResponse == Response("none", NoUserId, 0, 0, <<>>, NoTotal, "")

Init ==
    /\ users = <<>>
    /\ jobs = <<>>
    /\ now = 0
    /\ request = NoRequest
    /\ response = NoResponse
    /\ scored = <<>>

\* crud.create_user: a new row with the profile fields given.
CreateUser(user_id, profile) ==
    /\ user_id \notin DOMAIN users
    /\ users' = (user_id :> profile) @@ users
    /\ request' = NoRequest
    /\ response' = Response("create_user", user_id, 0, 201, <<>>, NoTotal, "")
    /\ scored' = <<>>
    /\ UNCHANGED <<jobs, now>>

\* crud.create_job: a new row with a fresh id; created_at defaults to utcnow.
CreateJob(input) ==
    /\ Len(jobs) < MaxJobs
    /\ jobs' = Append(jobs, JobRow(Len(jobs) + 1, input.title, input.description,
                                   input.skills, input.location,
                                   input.experience_level, input.remote, now))
    /\ request' = NoRequest
    /\ response' = Response("create_job", NoUserId, 0, 201, <<>>, NoTotal, "")
    /\ scored' = <<>>
    /\ UNCHANGED <<users, now>>

\* Time passes between requests (datetime.utcnow()).
Tick(days) ==
    /\ now + days <= MaxNow
    /\ now' = now + days
    /\ UNCHANGED <<users, jobs, request, response, scored>>

Next ==
    \/ \E user_id \in UserIds, profile \in Profiles : CreateUser(user_id, profile)
    \/ \E input \in JobInputs : CreateJob(input)
    \/ \E days \in TickDays : Tick(days)
    \/ \E user_id \in UserIds \cup {UnknownUserId, NoUserId}, limit \in PostLimits :
           PostRecommendationQuery(RecommendationQuery(None, user_id # NoUserId, user_id, limit))
    \/ \E user_id \in UserIds \cup {UnknownUserId}, limit \in GetLimits :
           GetRecommendationsForUser(user_id, limit)

Spec == Init /\ [][Next]_vars

(***************************************************************************)
(* Scoring one stored job for one stored user: every combination of the    *)
(* fields the scorer reads, then one POST /recommendations                 *)
(***************************************************************************)

RawUserSkills == {python, Python_, sql}
ScoreUserSkills ==
    SeqsUpTo(RawUserSkills, MaxUserSkills) \cup {NoneList, <<python, sql, django, git>>}
ScoreJobSkills ==
    {NoneList, <<>>, <<python, django>>, <<SQL_>>, <<SQL_, python>>,
     <<django, git, python, SQL_>>}
ScoreTitles == {PythonEngineer, SqlAnalyst, Clerk}
ScoreDescriptions == {PythonAndSql, OfficeWork}
ScorePreferredTitles == {NoneList, <<Engineer_>>}
\* <<the user's preferred_locations, the job's location>>
ScoreLocations == {<<NoneList, None>>, <<<<Chennai>>, ChennaiIndia>>}
\* <<the user's experience_level, the job's experience_level>>
ScoreLevels == {<<None, None>>, <<Senior, SeniorLevel>>}
ScoreAges == {2, 8, 15, 61}

InitScore ==
    /\ \E location \in ScoreLocations, level \in ScoreLevels :
         /\ \E skills \in ScoreUserSkills, titles \in ScorePreferredTitles :
                users = ("u1" :> User(skills, titles, location[1], level[1]))
         /\ \E title \in ScoreTitles, description \in ScoreDescriptions,
               skills \in ScoreJobSkills, remote \in BOOLEAN :
                jobs = <<JobRow(1, title, description, skills, location[2], level[2],
                                remote, 0)>>
    /\ \E age \in ScoreAges : now = age
    /\ request = NoRequest
    /\ response = NoResponse
    /\ scored = <<>>

\* One request per run.
NextScore ==
    /\ response = NoResponse
    /\ PostRecommendationQuery(RecommendationQuery(None, TRUE, "u1", 1))

SpecScore == InitScore /\ [][NextScore]_vars

(***************************************************************************)
(* Properties of the scorer (specification SpecScore)                     *)
(***************************************************************************)

\* The last request was a POST /recommendations that ran the scoring loop.
Posted == response.op = "post" /\ scored # <<>>

\* The requesting user's skill list as the scorer reads it.
ReqSkills == LowerStripAll(OrEmpty(users[response.user_id].skills))

\* The stored job a loop record is about (ids are positions in jobs).
JobOf(s) == jobs[s.job_id]

JobSkillSet(job) == Range(LowerStripAll(OrEmpty(job.skills)))
InTitle(skill, job) == IsSubstr(skill, Lower(job.title))
InDescription(skill, job) == IsSubstr(skill, Lower(OrBlank(job.description)))
LevelsMatch(user, job) ==
    /\ Truthy(user.experience_level) /\ Truthy(job.experience_level)
    /\ \/ IsSubstr(Lower(user.experience_level), Lower(job.experience_level))
       \/ IsSubstr(Lower(job.experience_level), Lower(user.experience_level))

\* The positions of the user's skill list that satisfy P.
Positions(P(_)) == {k \in 1..Len(ReqSkills) : P(ReqSkills[k])}

\* The scenario of C1: skills python and sql, no preferred titles or
\* locations; job skills {python, django}, title "Python Engineer", remote,
\* posted 2 days ago, no skill in the description, no experience match.
C1_Scenario(s) ==
    LET job == JobOf(s)
        user == users[response.user_id]
    IN /\ Len(ReqSkills) = 2 /\ Range(ReqSkills) = {python, sql}
       /\ OrEmpty(user.preferred_job_titles) = <<>>
       /\ OrEmpty(user.preferred_locations) = <<>>
       /\ JobSkillSet(job) = {python, django}
       /\ job.title = PythonEngineer
       /\ job.remote
       /\ response.at - job.created_at = 2
       /\ Positions(LAMBDA skill : InDescription(skill, job)) = {}
       /\ ~LevelsMatch(user, job)

\* C1: in the scenario above the job is returned with match_score 58 and
\* match_percentage 38.
C1_ScenarioScores58 ==
    Posted =>
        \A i \in 1..Len(scored) :
            C1_Scenario(scored[i]) =>
                /\ scored[i].score = 58
                /\ \E e \in Range(response.recommendations) :
                       /\ e.job_id = scored[i].job_id
                       /\ e.match_score = 58
                       /\ e.match_percentage = 38

C1_Witness ==
    /\ Posted
    /\ \E i \in 1..Len(scored) : C1_Scenario(scored[i])
    /\ response.recommendations # <<>>

\* C2 as stated: the title bonus is 15 per user skill that occurs in the job
\* title and was not counted as a skill-list match.
C2_TitleBonusOnlyForUncounted ==
    Posted =>
        \A i \in 1..Len(scored) :
            scored[i].rule_points[2] =
                15 * Cardinality(Positions(LAMBDA skill :
                         /\ InTitle(skill, JobOf(scored[i]))
                         /\ skill \notin JobSkillSet(JobOf(scored[i]))))

\* C2, amended: the title bonus is 15 per entry of the user's skill list that
\* occurs in the job title, whether or not that skill was also counted as a
\* skill-list match; a skill that is both gets 25 + 15.
C2_TitleBonusForEverySkillInTitle ==
    Posted =>
        \A i \in 1..Len(scored) :
            LET in_title == Positions(LAMBDA skill : InTitle(skill, JobOf(scored[i])))
                matched == Range(ReqSkills) \cap JobSkillSet(JobOf(scored[i]))
            IN /\ scored[i].rule_points[2] = 15 * Cardinality(in_title)
               /\ scored[i].rule_points[1] = 25 * Cardinality(matched)
               /\ scored[i].score >= 25 * Cardinality(matched) + 15 * Cardinality(in_title)

C2_Witness ==
    /\ Posted
    /\ \E i \in 1..Len(scored) :
           /\ \E k \in 1..Len(ReqSkills) :
                  /\ InTitle(ReqSkills[k], JobOf(scored[i]))
                  /\ ReqSkills[k] \in JobSkillSet(JobOf(scored[i]))
           /\ scored[i].rule_points[1] = 25
           /\ scored[i].rule_points[2] = 15

\* The number of reasons recorded before the description rule is evaluated.
ReasonsBeforeDescription(job) ==
    (IF Range(ReqSkills) \cap JobSkillSet(job) # {} THEN 1 ELSE 0)
    + (IF Positions(LAMBDA skill : InTitle(skill, job)) # {} THEN 1 ELSE 0)

HasReason(s, rule) == \E r \in Range(s.all_reasons) : r.rule = rule

\* C3 as stated: +5 per user skill in the description that was counted neither
\* as a skill-list match nor as a skill in the title, only when fewer than 2
\* reasons were recorded before; otherwise 0 points and no reason.
C3_DescriptionBonusExcludesTitleSkills ==
    Posted =>
        \A i \in 1..Len(scored) :
            LET job == JobOf(scored[i])
                fresh == Positions(LAMBDA skill : /\ InDescription(skill, job)
                                                  /\ skill \notin JobSkillSet(job)
                                                  /\ ~InTitle(skill, job))
                pts == IF ReasonsBeforeDescription(job) < 2 THEN 5 * Cardinality(fresh) ELSE 0
            IN /\ scored[i].rule_points[3] = pts
               /\ HasReason(scored[i], "skills_in_description") <=> pts > 0

\* C3, amended: +5 per entry of the user's skill list that occurs in the
\* description and is not a skill-list match (a skill counted in the title
\* still counts), only when fewer than 2 reasons were recorded before;
\* otherwise 0 points and no reason.
C3_DescriptionBonusExcludesListedSkills ==
    Posted =>
        \A i \in 1..Len(scored) :
            LET job == JobOf(scored[i])
                unlisted == Positions(LAMBDA skill : /\ InDescription(skill, job)
                                                     /\ skill \notin JobSkillSet(job))
                pts == IF ReasonsBeforeDescription(job) < 2 THEN 5 * Cardinality(unlisted) ELSE 0
            IN /\ scored[i].rule_points[3] = pts
               /\ HasReason(scored[i], "skills_in_description") <=> pts > 0

C3_Witness ==
    /\ Posted
    /\ \E i \in 1..Len(scored) :
           /\ \E k \in 1..Len(ReqSkills) :
                  /\ InDescription(ReqSkills[k], JobOf(scored[i]))
                  /\ InTitle(ReqSkills[k], JobOf(scored[i]))
                  /\ ReqSkills[k] \notin JobSkillSet(JobOf(scored[i]))
           /\ scored[i].rule_points[3] = 5
           /\ HasReason(scored[i], "skills_in_description")

\* No rule other than the skill-list match added points.
OnlySkillRule(s) == \A j \in 2..8 : s.rule_points[j] = 0

\* C4: when no other rule fires, k skills in both the user's and the job's
\* lower-cased, trimmed skill sets give a score of exactly 25 * k, with one
\* reason that lists min(k, 3) distinct matched skills (none when k = 0).
C4_SkillIntersectionScores25Each ==
    Posted =>
        \A i \in 1..Len(scored) :
            OnlySkillRule(scored[i]) =>
                LET matched == Range(ReqSkills) \cap JobSkillSet(JobOf(scored[i]))
                    k == Cardinality(matched)
                    reasons == scored[i].all_reasons
                IN /\ scored[i].score = 25 * k
                   /\ IF k = 0 THEN reasons = <<>>
                      ELSE /\ Len(reasons) = 1
                           /\ reasons[1].rule = "skills"
                           /\ reasons[1].n = k
                           /\ Len(reasons[1].listed) = Min(k, 3)
                           /\ Range(reasons[1].listed) \subseteq matched
                           /\ Cardinality(Range(reasons[1].listed)) = Len(reasons[1].listed)

C4_Witness ==
    /\ Posted
    /\ \E i \in 1..Len(scored) :
           /\ OnlySkillRule(scored[i])
           /\ Cardinality(Range(ReqSkills) \cap JobSkillSet(JobOf(scored[i]))) = 4
           /\ scored[i].score = 100
           /\ Len(scored[i].all_reasons[1].listed) = 3

\* The requesting user's preferred titles and locations as the scorer reads them.
ReqTitles == LowerStripAll(OrEmpty(users[response.user_id].preferred_job_titles))
ReqLocations == LowerStripAll(OrEmpty(users[response.user_id].preferred_locations))

\* The job gives the user no skill, title, location, experience, recency or
\* remote signal.
NoSignal(job) ==
    /\ Range(ReqSkills) \cap JobSkillSet(job) = {}
    /\ \A skill \in Range(ReqSkills) : ~InTitle(skill, job) /\ ~InDescription(skill, job)
    /\ \A title \in Range(ReqTitles) : ~IsSubstr(title, Lower(job.title))
    /\ \A place \in Range(ReqLocations) : ~IsSubstr(place, Lower(OrBlank(job.location)))
    /\ ~LevelsMatch(users[response.user_id], job)
    /\ response.at - job.created_at > 14
    /\ ~job.remote

RecIds == {e.job_id : e \in Range(response.recommendations)}

C6_PercentageIsCappedFloor ==
    /\ \A e \in Range(response.recommendations) :
           /\ e.match_percentage = Min(100, (e.match_score * 100) \div 150)
           /\ e.match_percentage <= 100
    /\ MatchPercentage(150) = 100 /\ MatchPercentage(75) = 50 /\ MatchPercentage(10) = 6
    /\ \A e \in Range(response.recommendations) :
           \A a \in 10..e.match_score : MatchPercentage(a) <= e.match_percentage

C6_Witness ==
    \E e \in Range(response.recommendations) :
        e.match_score > 150 /\ e.match_percentage = 100

RuleNames ==
    <<"skills", "skills_in_title", "skills_in_description", "title", "location",
      "experience", "recency", "remote">>

RuleIndex(rule) == CHOOSE j \in 1..8 : RuleNames[j] = rule

\* C7 (under SpecScore): the reasons of a scored job follow the order in
\* which the rules are evaluated, one reason for each rule that records one
\* (recency only for the 10-point case), and the returned match_reasons are
\* the first four of them.
C7_ReasonsFirstFourInRuleOrder ==
    Posted =>
        \A i \in 1..Len(scored) :
            LET all == scored[i].all_reasons
            IN /\ \A a, b \in 1..Len(all) :
                      a < b => RuleIndex(all[a].rule) < RuleIndex(all[b].rule)
               /\ \A j \in {1, 2, 3, 4, 5, 6, 8} :
                      HasReason(scored[i], RuleNames[j]) <=> scored[i].rule_points[j] > 0
               /\ HasReason(scored[i], "recency") <=> scored[i].rule_points[7] = 10
               /\ \A e \in Range(response.recommendations) :
                      e.job_id = scored[i].job_id =>
                          /\ Len(e.match_reasons) <= 4
                          /\ Len(e.match_reasons) = Min(4, Len(all))
                          /\ \A a \in 1..Len(e.match_reasons) : e.match_reasons[a] = all[a]

C7_Witness ==
    /\ Posted
    /\ Len(scored[1].all_reasons) = 7
    /\ Len(response.recommendations) = 1
    /\ Len(response.recommendations[1].match_reasons) = 4
    /\ response.recommendations[1].match_reasons[4].rule = "location"

(***************************************************************************)
(* Properties of ranking and truncation (specification Spec)              *)
(***************************************************************************)

\* The user has no skill, no preferred title and no preferred location
\* (as stored: an entry that is blank makes the list non-empty).
BlankProfile(user) ==
    /\ OrEmpty(user.skills) = <<>>
    /\ OrEmpty(user.preferred_job_titles) = <<>>
    /\ OrEmpty(user.preferred_locations) = <<>>

\* The position at which the loop encountered the job.
Encounter(job_id) == CHOOSE k \in 1..Len(scored) : scored[k].job_id = job_id

Qualifying == {i \in 1..Len(scored) : scored[i].score >= 10}

\* C8: the returned list is in non-increasing match_score order and entries
\* with equal match_score keep the order in which the pool was traversed.
C8_SortedDescendingStable ==
    response.op \in {"post", "get"} =>
        \A a, b \in 1..Len(response.recommendations) :
            a < b =>
                LET x == response.recommendations[a]
                    y == response.recommendations[b]
                IN /\ x.match_score >= y.match_score
                   /\ x.match_score = y.match_score =>
                          Encounter(x.job_id) < Encounter(y.job_id)

C8_Witness ==
    /\ Posted
    /\ Len(response.recommendations) = 2
    /\ response.recommendations[1].match_score = response.recommendations[2].match_score
    /\ scored[1].score >= 10
    /\ scored[1].score < response.recommendations[1].match_score

\* C9: total_matches of a rule-based response is the number of jobs that
\* passed the threshold, before truncation; it exceeds the length of the
\* returned list whenever more than `limit` jobs qualify.
C9_TotalCountsAllQualifying ==
    Posted =>
        /\ response.total_matches = Cardinality(Qualifying)
        /\ Cardinality(Qualifying) > response.limit =>
               response.total_matches > Len(response.recommendations)

\* C10: on both entry points a successful response carries at most `limit`
\* recommendations; after scoring they are the `limit` best qualifying jobs.
C10_AtMostLimitEntries ==
    response.op \in {"post", "get"} /\ response.status = 200 =>
        /\ Len(response.recommendations) <= response.limit
        /\ Posted =>
               /\ Len(response.recommendations) = Min(response.limit, Cardinality(Qualifying))
               /\ \A i \in Qualifying :
                      scored[i].job_id \notin RecIds =>
                          \A e \in Range(response.recommendations) :
                              e.match_score >= scored[i].score

(***************************************************************************)
(* Properties of the error and empty-result cases (specification Spec)     *)
(***************************************************************************)

\* The last operation was a recommendation request by user id, on either
\* entry point, that got past the validation of its body.
ByUserId ==
    /\ response.op \in {"post", "get"}
    /\ response.user_id # NoUserId
    /\ response.status # 422

\* C14: on both entry points a request by an id that matches no stored user
\* is answered 404, before any job is fetched or scored, and carries no
\* recommendation list (and no total).
C14_UnknownUserIsNotFound ==
    ByUserId /\ response.user_id \notin DOMAIN users =>
        /\ response.status = 404
        /\ scored = <<>>
        /\ response.recommendations = <<>>
        /\ response.total_matches = NoTotal

\* An unknown id is refused although jobs are stored that a known user
\* would be scored against.
C14_Witness ==
    /\ response.op = "get"
    /\ response.user_id \notin DOMAIN users
    /\ response.status = 404
    /\ DOMAIN users # {}
    /\ jobs # <<>>

\* The three ways in which POST /recommendations has nothing to return for
\* a stored user.
NothingToReturn ==
    /\ response.op = "post"
    /\ response.user_id \in DOMAIN users
    /\ \/ BlankProfile(users[response.user_id])
       \/ RecentJobs(jobs, response.at) = <<>>
       \/ Qualifying = {}

Embedding(text) == <<"embedding of">> \o text

\* models.User: the columns the recommendation handlers and the profile
\* operations read or write.
UserRow(name, skills, titles, locations, level, years, job_type, resume_text, embedding) ==
    [skills |-> skills, experience_level |-> level, preferred_job_titles |-> titles,
     preferred_locations |-> locations, name |-> name, resume_text |-> resume_text,
     experience_years |-> years, preferred_job_type |-> job_type, resume_embedding |-> embedding]

Asha == <<"A", "s", "h", "a">>
PythonDeveloper ==
    <<"p", "y", "t", "h", "o", "n", " ", "d", "e", "v", "e", "l", "o", "p", "e", "r">>

\* Stored users: a profile without an embedding (the state registration
\* leaves), the same profile with one, and a profile with nothing to match.
SelectorUsers ==
    {UserRow(Asha, <<Python_, sql>>, <<Engineer_>>, NoneList, None, None, None, None, None),
     UserRow(Asha, <<Python_, sql>>, <<Engineer_>>, NoneList, None, None, None, python,
             Embedding(python)),
     UserRow(Asha, NoneList, NoneList, NoneList, None, None, None, None, None)}

\* The "query" of a body: absent or null, "", or a text.
SelectorQueries == {None, <<>>, PythonDeveloper}

\* The "user_id" of a body: key absent, null, a stored user's id, an id of no user.
SelectorUserIds ==
    {<<FALSE, NoUserId>>, <<TRUE, NoUserId>>, <<TRUE, "u1">>, <<TRUE, UnknownUserId>>}

SelectorLimits == 0..MaxLimit

InitSelector ==
    /\ \E user \in SelectorUsers : users = ("u1" :> user)
    /\ \E n \in 0..2 :
           \E inputs \in [1..n -> JobInputs] :
               jobs = [i \in 1..n |->
                         JobRow(i, inputs[i].title, inputs[i].description, inputs[i].skills,
                                inputs[i].location, inputs[i].experience_level,
                                inputs[i].remote, 0)]
    /\ now = 0
    /\ request = NoRequest
    /\ response = NoResponse
    /\ scored = <<>>

NextSelector ==
    \E query \in SelectorQueries, uid \in SelectorUserIds, limit \in SelectorLimits :
        PostRecommendationQuery(RecommendationQuery(query, uid[1], uid[2], limit))

SpecSelector == InitSelector /\ [][NextSelector]_vars

\* The last operation was a POST /recommendations whose body passed the
\* limit bounds.
PostedBody == response.op = "post" /\ LimitInRange(request)

HasQuery == Truthy(request.query)

HasUserId == request.user_id # NoUserId

\* C11: a body carrying only a free-text query is answered successfully from
\* the similarity path: it is not rejected for lacking a user id and the
\* rule scorer does not run.
C11_QueryOnlyIsServed ==
    PostedBody /\ HasQuery /\ ~HasUserId =>
        /\ response.status = 200
        /\ scored = <<>>

\* C12 as stated: a body with neither a query nor a user id, or with both, is
\* rejected with a client error, nothing is scored and no recommendation is
\* returned.
C12_NeitherOrBothRejected ==
    PostedBody /\ (HasQuery <=> HasUserId) =>
        /\ (response.status = 400 \/ response.status = 422)
        /\ scored = <<>>
        /\ response.recommendations = <<>>

\* C12, amended: a body with neither a query nor a user id is rejected with
\* a client error (400, or 422 when user_id is given as null), nothing is
\* scored and nothing returned; a body with both is not rejected for that:
\* the query is ignored and the request is handled by its user id (404 for an
\* unknown user, otherwise 200 from the rule scorer).
C12_NeitherRejectedBothServedByUserId ==
    /\ PostedBody /\ ~HasQuery /\ ~HasUserId =>
           /\ (response.status = 400 \/ response.status = 422)
           /\ scored = <<>>
           /\ response.recommendations = <<>>
    /\ PostedBody /\ HasQuery /\ HasUserId =>
           /\ response.status = (IF request.user_id \in DOMAIN users THEN 200 ELSE 404)
           /\ scored # <<>> <=>
                  /\ request.user_id \in DOMAIN users
                  /\ RecentJobs(jobs, response.at) # <<>>
                  /\ ~BlankProfile(users[request.user_id])

C12_Witness ==
    /\ PostedBody /\ HasQuery /\ HasUserId
    /\ response.status = 200
    /\ scored # <<>>
    /\ response.recommendations # <<>>

\* C13: a request by the id of a stored user whose resume_embedding is null
\* ends in an error, never in a successful response.
C13_NoEmbeddingIsPreconditionFailed ==
    /\ PostedBody /\ HasUserId
    /\ request.user_id \in DOMAIN users
    /\ users[request.user_id].resume_embedding = None
    => response.status >= 400

(***************************************************************************)
(* The title, location, experience and recency rules: one stored user and  *)
(* one stored job over every combination of the fields these rules read,   *)
(* then one POST /recommendations                                          *)
(***************************************************************************)

Analyst == <<"A", "n", "a", "l", "y", "s", "t">>
India == <<"I", "n", "d", "i", "a">>
Delhi == <<"D", "e", "l", "h", "i">>
Mid == <<"M", "i", "d">>
Blank == <<" ">>

\* preferred_job_titles; against the title "Python Engineer" the lists match
\* with no entry, their only entry, their second and third entry, their
\* first and second entry.
RulesPreferredTitles ==
    {NoneList, <<Engineer_>>, <<Analyst, Engineer_, python>>, <<python, Engineer_>>, <<Blank>>}
RulesJobTitles == {PythonEngineer, Clerk}
\* preferred_locations and Job.location
RulesPreferredLocations == {NoneList, <<Chennai>>, <<Delhi, India, Chennai>>, <<Blank>>}
RulesJobLocations == {None, <<>>, ChennaiIndia, Delhi}
\* User.experience_level and Job.experience_level
RulesUserLevels == {None, <<>>, Senior, SeniorLevel}
RulesJobLevels == {None, <<>>, Senior, SeniorLevel, Mid}
\* days between Job.created_at and the request
RulesAges == {0, 7, 8, 14, 15}

InitRules ==
    /\ \E titles \in RulesPreferredTitles, locations \in RulesPreferredLocations,
          level \in RulesUserLevels :
           users = ("u1" :> User(<<git>>, titles, locations, level))
    /\ \E title \in RulesJobTitles, location \in RulesJobLocations, level \in RulesJobLevels :
           jobs = <<JobRow(1, title, OfficeWork, NoneList, location, level, FALSE, 0)>>
    /\ \E age \in RulesAges : now = age
    /\ request = NoRequest
    /\ response = NoResponse
    /\ scored = <<>>

\* One request per run.
NextRules ==
    /\ response = NoResponse
    /\ PostRecommendationQuery(RecommendationQuery(None, TRUE, "u1", 1))

SpecRules == InitRules /\ [][NextRules]_vars

\* The age in whole days of the job at the time of the request.
AgeOf(s) == response.at - JobOf(s).created_at

Matches(wanted, text) == {k \in 1..Len(wanted) : IsSubstr(wanted[k], text)}

\* Points pts and one reason naming the first matching entry when some entry
\* of `wanted` matches `text`; otherwise no points and no reason.
OnceForFirstMatch(s, j, wanted, text, pts) ==
    LET hits == Matches(wanted, text)
        named == {r \in Range(s.all_reasons) : r.rule = RuleNames[j]}
    IN IF hits = {}
       THEN s.rule_points[j] = 0 /\ named = {}
       ELSE /\ s.rule_points[j] = pts
            /\ \E r \in named :
                   /\ named = {r}
                   /\ r.listed = <<wanted[CHOOSE k \in hits : \A h \in hits : k <= h]>>

\* C17: the preferred-title bonus (30) and the preferred-location bonus (20)
\* are each added at most once per job, with one reason naming the first
\* matching entry in the user's list order, however many entries match; a
\* job with no location never receives the location bonus.
C17_TitleAndLocationBonusOnce ==
    Posted =>
        \A i \in 1..Len(scored) :
            LET job == JobOf(scored[i])
            IN /\ OnceForFirstMatch(scored[i], 4, ReqTitles, Lower(job.title), 30)
               /\ OnceForFirstMatch(scored[i], 5, ReqLocations,
                                    Lower(OrBlank(job.location)), 20)
               /\ ~Truthy(job.location) => scored[i].rule_points[5] = 0

\* C18: the experience rule adds exactly 15 points and one reason when the
\* user's level is a case-insensitive substring of the job's level or the
\* other way round, and nothing otherwise, in particular whenever either
\* level is absent or empty.
C18_ExperienceCrossSubstring ==
    Posted =>
        \A i \in 1..Len(scored) :
            LET user == users[response.user_id]
                job == JobOf(scored[i])
                given == {r \in Range(scored[i].all_reasons) : r.rule = "experience"}
            IN /\ scored[i].rule_points[6] = (IF LevelsMatch(user, job) THEN 15 ELSE 0)
               /\ Cardinality(given) = (IF LevelsMatch(user, job) THEN 1 ELSE 0)
               /\ ~Truthy(user.experience_level) \/ ~Truthy(job.experience_level) =>
                      scored[i].rule_points[6] = 0 /\ given = {}

\* The job's level ("Senior") is a substring of the user's ("senior level"),
\* not the other way round.
C18_Witness ==
    /\ Posted
    /\ users[response.user_id].experience_level = SeniorLevel
    /\ JobOf(scored[1]).experience_level = Senior
    /\ scored[1].rule_points[6] = 15
    /\ HasReason(scored[1], "experience")

(***************************************************************************)
(* crud.search_jobs_by_similarity: the vector search over stored jobs      *)
(***************************************************************************)

\* Vectors are tuples of integers; similarities and min_score are counted
\* in hundredths (0.5 is 50).
Dot(a, b) == SumSeq([i \in 1..Len(a) |-> a[i] * b[i]])

\* The Euclidean norm of a vector whose norm is a whole number.
Norm(a) == CHOOSE n \in 0..Dot(a, a) : n * n = Dot(a, a)

\* 1 - (jobs.embedding <=> :embedding::vector): pgvector's <=> is the cosine
\* distance, so this is the cosine similarity.
Similarity(a, b) == (Dot(a, b) * 100) \div (Norm(a) * Norm(b))

\* A row of jobs as the query reads it: embedding is NULL (None) or a vector.
SearchJob(id, job_type, location, remote, embedding) ==
    [location |-> location, remote |-> remote, id |-> id, job_type |-> job_type,
     embedding |-> embedding]

\* jobs.location ILIKE '%location%' (NULL for a NULL location)
ILikeContains(text, part) == text # None /\ IsSubstr(Lower(part), Lower(text))

\* The WHERE clause: the similarity threshold (NULL, so not true, for a job
\* without embedding) and the filters added for truthy arguments.
SearchWhere(job, query_embedding, min_score, job_type, location, remote_only) ==
    /\ job.embedding # None
    /\ Similarity(job.embedding, query_embedding) >= min_score
    /\ Truthy(job_type) => job.job_type = job_type
    /\ Truthy(location) => ILikeContains(job.location, location)
    /\ remote_only => job.remote

\* Variant: ORDER BY similarity (ascending).
OrderedBySimilarityAscending(rows) ==
    \A a, b \in 1..Len(rows) : a < b => rows[a][2] <= rows[b][2]

\* ORDER BY similarity DESC: rows is in an order the sort can produce (rows
\* of equal similarity come in any order).
OrderedBySimilarity(rows) ==
    \A a, b \in 1..Len(rows) : a < b => rows[a][2] >= rows[b][2]

\* What the call returns, with its arguments.
SearchResult(query_embedding, limit, min_score, job_type, location, remote_only, status, rows) ==
    [location |-> location, limit |-> limit, op |-> "search", status |-> status,
     job_type |-> job_type, query_embedding |-> query_embedding, min_score |-> min_score,
     remote_only |-> remote_only, jobs_with_scores |-> rows]

MaxSearchJobs == 3

\* search_jobs_by_similarity(db, query_embedding, limit, min_score, job_type,
\* location, remote_only): the rows selected, sorted, cut by LIMIT and turned
\* into (job, similarity) pairs, here <<job id, similarity>>.  A negative
\* LIMIT is refused by the database and the call raises.
SearchJobsBySimilarity(query_embedding, limit, min_score, job_type, location, remote_only) ==
    /\ UNCHANGED <<users, jobs, now>>
    /\ request' = NoRequest
    /\ scored' = <<>>
    /\ IF limit < 0
       THEN response' = SearchResult(query_embedding, limit, min_score, job_type, location,
                                     remote_only, "raised", <<>>)
       ELSE LET selected == {i \in 1..Len(jobs) :
                               SearchWhere(jobs[i], query_embedding, min_score, job_type,
                                           location, remote_only)}
            IN \E ord \in Orders(selected) :
                 LET rows == [k \in 1..Cardinality(selected) |->
                                <<jobs[ord[k]].id,
                                  Similarity(jobs[ord[k]].embedding, query_embedding)>>]
                 IN /\ OrderedBySimilarity(rows)
                    /\ response' = SearchResult(query_embedding, limit, min_score, job_type,
                                                location, remote_only, "returned",
                                                Take(rows, limit))

fulltime == <<"f", "u", "l", "l">>
contract == <<"c", "o", "n", "t", "r", "a", "c", "t">>
chennai == <<"c", "h", "e", "n", "n", "a", "i">>

\* Stored jobs, before their id: <<job_type, location, remote, embedding>>.
\* The embeddings have norm 5; against the query <<5, 0>> their similarities
\* are 1.0, 0.8, 0.8, 0.6 and -0.6.
SearchJobInputs ==
    {<<fulltime, ChennaiIndia, TRUE, <<5, 0>>>>,
     <<fulltime, Chennai, FALSE, <<4, 3>>>>,
     <<contract, None, TRUE, <<4, -3>>>>,
     <<fulltime, Delhi, TRUE, <<3, 4>>>>,
     <<None, ChennaiIndia, FALSE, <<-3, 4>>>>,
     <<fulltime, Chennai, TRUE, None>>}

SearchQueries == {<<5, 0>>}
SearchMinScores == {0, 80}
SearchLimits == {-1, 1, 2}
\* <<job_type, location, remote_only>>
SearchFilters ==
    {<<None, None, FALSE>>, <<fulltime, <<>>, FALSE>>, <<<<>>, chennai, FALSE>>,
     <<None, None, TRUE>>}

InitSearch ==
    /\ users = <<>>
    /\ \E n \in 0..MaxSearchJobs :
           \E inputs \in [1..n -> SearchJobInputs] :
               jobs = [i \in 1..n |->
                         SearchJob(i, inputs[i][1], inputs[i][2], inputs[i][3], inputs[i][4])]
    /\ now = 0
    /\ request = NoRequest
    /\ response = NoResponse
    /\ scored = <<>>

\* One call per run.
NextSearch ==
    /\ response = NoResponse
    /\ \E query_embedding \in SearchQueries, limit \in SearchLimits,
          min_score \in SearchMinScores, filter \in SearchFilters :
           SearchJobsBySimilarity(query_embedding, limit, min_score,
                                  filter[1], filter[2], filter[3])

SpecSearch == InitSearch /\ [][NextSearch]_vars

Searched == response.op = "search" /\ response.status = "returned"

ReturnedIds == {response.jobs_with_scores[k][1] : k \in 1..Len(response.jobs_with_scores)}

\* The stored job satisfies the filters of the call.
PassesFilters(job) ==
    /\ Truthy(response.job_type) => job.job_type = response.job_type
    /\ Truthy(response.location) =>
           job.location # None /\ IsSubstr(Lower(response.location), Lower(job.location))
    /\ response.remote_only => job.remote

\* C19: search_jobs_by_similarity returns (job, similarity) pairs in
\* non-increasing order of similarity, none below min_score, at most `limit`
\* of them, each the similarity of a stored job that satisfies the filters;
\* no omitted job that satisfies the filters has a strictly higher
\* similarity than a returned one.
C19_SearchSortedThresholdedTopK ==
    Searched =>
        LET rows == response.jobs_with_scores
            q == response.query_embedding
        IN /\ \A a, b \in 1..Len(rows) : a < b => rows[a][2] >= rows[b][2]
           /\ \A a, b \in 1..Len(rows) : a # b => rows[a][1] # rows[b][1]
           /\ \A a \in 1..Len(rows) :
                  /\ rows[a][2] >= response.min_score
                  /\ rows[a][1] \in 1..Len(jobs)
                  /\ jobs[rows[a][1]].embedding # None
                  /\ rows[a][2] = Similarity(jobs[rows[a][1]].embedding, q)
                  /\ PassesFilters(jobs[rows[a][1]])
           /\ Len(rows) <= response.limit
           /\ \A i \in 1..Len(jobs) :
                  /\ i \notin ReturnedIds
                  /\ PassesFilters(jobs[i])
                  /\ jobs[i].embedding # None
                  => /\ \A a \in 1..Len(rows) : Similarity(jobs[i].embedding, q) <= rows[a][2]
                     /\ Similarity(jobs[i].embedding, q) < response.min_score
                            \/ Len(rows) = response.limit

\* Two jobs are returned in order of similarity, a third that passes the
\* threshold is cut by the limit.
C19_Witness ==
    /\ Searched
    /\ Len(response.jobs_with_scores) = 2
    /\ response.jobs_with_scores[1][2] > response.jobs_with_scores[2][2]
    /\ response.jobs_with_scores[1][1] > response.jobs_with_scores[2][1]
    /\ \E i \in 1..Len(jobs) :
           /\ i \notin ReturnedIds
           /\ jobs[i].embedding # None
           /\ Similarity(jobs[i].embedding, response.query_embedding) >= response.min_score

(***************************************************************************)
(* Profile updates and the profile embedding: PUT /users/{user_id},        *)
(* crud.update_user and POST /users/{user_id}/generate-resume-embedding    *)
(***************************************************************************)

\* Python's None in the integer column experience_years (the schema admits
\* 0..50 only).
NoYears == -1

\* str(n) for 0 <= n <= 99
Str(n) ==
    LET digit == <<"0", "1", "2", "3", "4", "5", "6", "7", "8", "9">>
    IN IF n < 10 THEN <<digit[n + 1]>> ELSE <<digit[(n \div 10) + 1], digit[(n % 10) + 1]>>

\* sep.join(xs) for a list of strings
RECURSIVE Join(_, _)
Join(sep, xs) ==
    IF xs = <<>> THEN <<>>
    ELSE IF Len(xs) = 1 THEN xs[1]
    ELSE xs[1] \o sep \o Join(sep, Tail(xs))

RESUME_CHARS == 1000

\* ml_service.create_user_profile_text(user_data): the parts for the truthy
\* fields, joined by one space.  (A fixed label is one element of the
\* sequence: "Skills: " stands for its eight characters.)
CreateUserProfileText(user_data) ==
    LET skills == IF Truthy(user_data.skills) /\ user_data.skills # NoneList
                  THEN <<<<"Skills: ">> \o Join(<<",", " ">>, user_data.skills)>>
                  ELSE <<>>
        years == IF user_data.experience_years # NoYears /\ user_data.experience_years # 0
                 THEN <<<<"Experience: ">> \o Str(user_data.experience_years)
                        \o <<" ", "y", "e", "a", "r", "s">>>>
                 ELSE <<>>
        job_type == IF Truthy(user_data.preferred_job_type)
                    THEN <<<<"Looking for: ">> \o user_data.preferred_job_type>>
                    ELSE <<>>
        locations == IF Truthy(user_data.preferred_locations)
                        /\ user_data.preferred_locations # NoneList
                     THEN <<<<"Preferred locations: ">>
                            \o Join(<<",", " ">>, user_data.preferred_locations)>>
                     ELSE <<>>
        resume == IF Truthy(user_data.resume_text)
                  THEN <<Take(user_data.resume_text, RESUME_CHARS)>>
                  ELSE <<>>
    IN Join(<<" ">>, skills \o years \o job_type \o locations \o resume)

\* The fields whose presence in an update makes crud.update_user regenerate
\* the embedding (line 235).
EMBEDDED_FIELDS == {"skills", "resume_text", "preferred_job_type", "preferred_locations"}

\* for field, value in update_data.items(): setattr(user, field, value)
SetAttrs(user, update_data) ==
    [field \in DOMAIN user |->
        IF field \in DOMAIN update_data THEN update_data[field] ELSE user[field]]

\* The request and the answer of a profile operation.
ProfileRequest(user_id, update_data) == [user_id |-> user_id, update |-> update_data]
\* embedded lists the texts the operation passed to ml_service.generate_embedding.
ProfileResponse(op, user_id, status, embedded) ==
    [op |-> op, user_id |-> user_id, status |-> status, embedded |-> embedded]

\* users.name is NOT NULL: a row with name None is refused at commit.
Commits(user) == user.name # None

\* PUT /users/{user_id} (routers/users.py update_user) by the authenticated
\* user current_user: the fields the body sets are assigned and committed.
\* resume_embedding is not touched.
PutUser(current_user, user_id, update_data) ==
    /\ current_user \in DOMAIN users
    /\ request' = ProfileRequest(user_id, update_data)
    /\ scored' = <<>>
    /\ UNCHANGED <<jobs, now>>
    /\ IF current_user # user_id
       THEN /\ response' = ProfileResponse("put_user", user_id, 403, <<>>)
            /\ UNCHANGED users
       ELSE LET updated == SetAttrs(users[user_id], update_data)
            IN IF Commits(updated)
               THEN /\ users' = [users EXCEPT ![user_id] = updated]
                    /\ response' = ProfileResponse("put_user", user_id, 200, <<>>)
               ELSE /\ response' = ProfileResponse("put_user", user_id, 500, <<>>)
                    /\ UNCHANGED users

\* crud.update_user(db, user_id, user_data): None for a missing user;
\* otherwise the fields are assigned and, when one of EMBEDDED_FIELDS is
\* among them, resume_embedding becomes the embedding of the profile text of
\* the updated row.
UpdateUser(user_id, update_data) ==
    /\ request' = ProfileRequest(user_id, update_data)
    /\ scored' = <<>>
    /\ UNCHANGED <<jobs, now>>
    /\ IF user_id \notin DOMAIN users
       THEN /\ response' = ProfileResponse("update_user", user_id, 404, <<>>)
            /\ UNCHANGED users
       ELSE LET assigned == SetAttrs(users[user_id], update_data)
                regenerate == DOMAIN update_data \cap EMBEDDED_FIELDS # {}
                profile_text == CreateUserProfileText(assigned)
                updated ==
                    IF regenerate
                    THEN [assigned EXCEPT !.resume_embedding = Embedding(profile_text)]
                    ELSE assigned
                embedded == IF regenerate THEN <<profile_text>> ELSE <<>>
            IN IF Commits(updated)
               THEN /\ users' = [users EXCEPT ![user_id] = updated]
                    /\ response' = ProfileResponse("update_user", user_id, 200, embedded)
               ELSE /\ response' = ProfileResponse("update_user", user_id, 500, embedded)
                    /\ UNCHANGED users

\* POST /users/{user_id}/generate-resume-embedding with body resume_data:
\* resume_text = resume_data.get("resume_text", ""); the embedding of that
\* text is stored (the column resume_text is not written).
GenerateResumeEmbedding(current_user, user_id, resume_text) ==
    /\ current_user \in DOMAIN users
    /\ request' = ProfileRequest(user_id, [resume_text |-> resume_text])
    /\ scored' = <<>>
    /\ UNCHANGED <<jobs, now>>
    /\ IF current_user # user_id
       THEN /\ response' = ProfileResponse("generate_resume_embedding", user_id, 403, <<>>)
            /\ UNCHANGED users
       ELSE IF ~Truthy(resume_text)
       THEN /\ response' = ProfileResponse("generate_resume_embedding", user_id, 400, <<>>)
            /\ UNCHANGED users
       ELSE /\ users' = [users EXCEPT ![user_id].resume_embedding = Embedding(resume_text)]
            /\ response' = ProfileResponse("generate_resume_embedding", user_id, 200,
                                            <<resume_text>>)

Ravi == <<"R", "a", "v", "i">>

\* Stored users: without an embedding, and with the embedding of their
\* profile text.
ProfileUsers ==
    LET bare == UserRow(Asha, <<python>>, NoneList, NoneList, None, NoYears, None, None, None)
        full == UserRow(Asha, <<python, sql>>, NoneList, <<Chennai>>, None, 3, fulltime,
                        PythonDeveloper, None)
    IN {bare,
        [bare EXCEPT !.resume_embedding = Embedding(CreateUserProfileText(bare))],
        [full EXCEPT !.resume_embedding = Embedding(CreateUserProfileText(full))]}

\* Bodies of UserUpdate as model_dump(exclude_unset=True) yields them: the
\* fields the body sets, a null included.
UserUpdates ==
    {<<>>,
     [name |-> Ravi],
     [name |-> None],
     [experience_years |-> 3],
     [skills |-> <<sql>>],
     [skills |-> NoneList],
     [resume_text |-> PythonDeveloper],
     [preferred_locations |-> <<Delhi, Chennai>>, name |-> Ravi]}

ResumeTexts == {None, <<>>, sql}

InitProfile ==
    /\ \E user \in ProfileUsers : users = ("u1" :> user)
    /\ jobs = <<>>
    /\ now = 0
    /\ request = NoRequest
    /\ response = NoResponse
    /\ scored = <<>>

NextProfile ==
    \/ \E user_id \in UserIds \cup {UnknownUserId}, update_data \in UserUpdates :
           PutUser("u1", user_id, update_data)
    \/ \E user_id \in UserIds \cup {UnknownUserId}, update_data \in UserUpdates :
           UpdateUser(user_id, update_data)
    \/ \E user_id \in UserIds \cup {UnknownUserId}, resume_text \in ResumeTexts :
           GenerateResumeEmbedding("u1", user_id, resume_text)

SpecProfile == InitProfile /\ [][NextProfile]_vars

\* C20: a profile update regenerates the user's embedding if and only if one
\* of skills, resume text, preferred job type and preferred locations is
\* among the fields it changes: an update of other fields only leaves
\* resume_embedding as it was, and an update of one of these fields replaces
\* it by the embedding of the updated profile, on every update path.
C20_EmbeddingFollowsProfileFields ==
    [][response'.op \in {"put_user", "update_user"} /\ response'.status = 200 =>
           LET id == response'.user_id
           IN IF DOMAIN request'.update \cap EMBEDDED_FIELDS # {}
              THEN users'[id].resume_embedding = Embedding(CreateUserProfileText(users'[id]))
              ELSE users'[id].resume_embedding = users[id].resume_embedding]_vars

(***************************************************************************)
(* The texts handed to the embedding gateway: ml_service.create_job_text   *)
(* and ml_service.create_user_profile_text, as functions of their dict     *)
(***************************************************************************)

DESCRIPTION_CHARS == 500

\* A text of n characters.
LongText(n) == [i \in 1..n |-> "x"]

\* The dict create_user_profile_text reads (crud.update_user builds it from
\* the row, crud.create_user from the body).
ProfileData(skills, years, job_type, locations, resume_text) ==
    [skills |-> skills, preferred_locations |-> locations, resume_text |-> resume_text,
     experience_years |-> years, preferred_job_type |-> job_type]

\* The keys of JobCreate.model_dump() that create_job_text reads.
JobData(title, company, location, description, skills, job_type, level, remote) ==
    [skills |-> skills, description |-> description, title |-> title, location |-> location,
     experience_level |-> level, remote |-> remote, job_type |-> job_type, company |-> company]

\* Variant: a part is appended for every field, an empty one for a missing
\* field.
CreateJobTextWithEmptyParts(job_data) ==
    Join(<<" ">>,
         <<OrBlank(job_data.title), OrBlank(job_data.title),
           <<"Company: ">> \o OrBlank(job_data.company),
           <<"Location: ">> \o OrBlank(job_data.location),
           Take(OrBlank(job_data.description), 500),
           <<"Required skills: ">> \o Join(<<",", " ">>, OrEmpty(job_data.skills)),
           <<"Job type: ">> \o OrBlank(job_data.job_type),
           <<"Experience: ">> \o OrBlank(job_data.experience_level)>>
         \o (IF job_data.remote THEN <<<<"Remote work available">>>> ELSE <<>>))

\* ml_service.create_job_text(job_data): the parts for the truthy fields,
\* joined by one space.
CreateJobText(job_data) ==
    LET title == IF Truthy(job_data.title) THEN <<job_data.title, job_data.title>> ELSE <<>>
        company == IF Truthy(job_data.company)
                   THEN <<<<"Company: ">> \o job_data.company>>
                   ELSE <<>>
        location == IF Truthy(job_data.location)
                    THEN <<<<"Location: ">> \o job_data.location>>
                    ELSE <<>>
        description == IF Truthy(job_data.description)
                       THEN <<Take(job_data.description, DESCRIPTION_CHARS)>>
                       ELSE <<>>
        skills == IF Truthy(job_data.skills) /\ job_data.skills # NoneList
                  THEN <<<<"Required skills: ">> \o Join(<<",", " ">>, job_data.skills)>>
                  ELSE <<>>
        job_type == IF Truthy(job_data.job_type)
                    THEN <<<<"Job type: ">> \o job_data.job_type>>
                    ELSE <<>>
        level == IF Truthy(job_data.experience_level)
                 THEN <<<<"Experience: ">> \o job_data.experience_level>>
                 ELSE <<>>
        remote == IF job_data.remote THEN <<<<"Remote work available">>>> ELSE <<>>
    IN Join(<<" ">>,
            title \o company \o location \o description \o skills \o job_type \o level \o remote)

\* One call of a text function: its argument and what it returned.
TextRequest(data) == [data |-> data]
TextResponse(op, text) == [text |-> text, op |-> op]

UserProfileTextCall(user_data) ==
    /\ request' = TextRequest(user_data)
    /\ response' = TextResponse("create_user_profile_text", CreateUserProfileText(user_data))
    /\ UNCHANGED <<users, jobs, now, scored>>

JobTextCall(job_data) ==
    /\ request' = TextRequest(job_data)
    /\ response' = TextResponse("create_job_text", CreateJobText(job_data))
    /\ UNCHANGED <<users, jobs, now, scored>>

Acme == <<"A", "c", "m", "e">>

\* Arguments: each optional field absent (None), empty, or set; the texts
\* one character over the cut.
ProfileDatas ==
    {ProfileData(skills, years, job_type, locations, resume_text) :
        skills \in {NoneList, <<>>, <<python, sql>>},
        years \in {NoYears, 0, 3, 12},
        job_type \in {None, <<>>, fulltime},
        locations \in {NoneList, <<Chennai, Delhi>>},
        resume_text \in {None, <<>>, PythonDeveloper, LongText(RESUME_CHARS + 1)}}

JobDatas ==
    {JobData(title, company, location, description, skills, job_type, level, remote) :
        title \in {None, Clerk, PythonEngineer},
        company \in {None, <<>>, Acme},
        location \in {None, ChennaiIndia},
        description \in {<<>>, OfficeWork, LongText(DESCRIPTION_CHARS + 1)},
        skills \in {NoneList, <<>>, <<python, sql>>},
        job_type \in {None, fulltime},
        level \in {None, <<>>, SeniorLevel},
        remote \in BOOLEAN}

InitText ==
    /\ users = <<>>
    /\ jobs = <<>>
    /\ now = 0
    /\ request = NoRequest
    /\ response = NoResponse
    /\ scored = <<>>

\* One call per run.
NextText ==
    /\ response = NoResponse
    /\ \/ \E user_data \in ProfileDatas : UserProfileTextCall(user_data)
       \/ \E job_data \in JobDatas : JobTextCall(job_data)

SpecText == InitText /\ [][NextText]_vars

\* A list or string field that is set and not empty.
PresentList(xs) == xs # NoneList /\ xs # <<>>

\* The parts C22 names, for the fields that are present: experience_years is
\* present when it is not None.
ProfilePartsAsStated(d) ==
    (IF PresentList(d.skills)
     THEN <<<<"Skills: ">> \o Join(<<",", " ">>, d.skills)>> ELSE <<>>)
    \o (IF d.experience_years # NoYears
        THEN <<<<"Experience: ">> \o Str(d.experience_years) \o <<" ", "y", "e", "a", "r", "s">>>>
        ELSE <<>>)
    \o (IF Truthy(d.preferred_job_type)
        THEN <<<<"Looking for: ">> \o d.preferred_job_type>> ELSE <<>>)
    \o (IF PresentList(d.preferred_locations)
        THEN <<<<"Preferred locations: ">> \o Join(<<",", " ">>, d.preferred_locations)>>
        ELSE <<>>)
    \o (IF Truthy(d.resume_text) THEN <<SubSeq(d.resume_text, 1, Min(Len(d.resume_text), 1000))>>
        ELSE <<>>)

\* C22: create_user_profile_text returns the parts of the present fields
\* joined by one space: every present experience_years N >= 0 gives
\* "Experience: N years", the resume text is cut to 1000 characters, and the
\* result is empty only if skills, experience years, preferred job type,
\* preferred locations and resume text are all absent.
C22_ProfileTextHasEveryPresentField ==
    response.op = "create_user_profile_text" =>
        LET d == request.data
        IN /\ response.text = Join(<<" ">>, ProfilePartsAsStated(d))
           /\ response.text = <<>> =>
                  /\ ~PresentList(d.skills)
                  /\ d.experience_years = NoYears
                  /\ ~Truthy(d.preferred_job_type)
                  /\ ~PresentList(d.preferred_locations)
                  /\ ~Truthy(d.resume_text)

\* The parts among candidates, pairs <<present, part>>, whose field is
\* present, in their order.
PresentParts(candidates) ==
    LET kept == SelectSeq(candidates, LAMBDA c : c[1])
    IN [i \in 1..Len(kept) |-> kept[i][2]]

\* No empty token: the text neither starts nor ends with a separator and has
\* no two separators in a row.
NoEmptyToken(text) ==
    /\ text # <<>> => text[1] # " " /\ text[Len(text)] # " "
    /\ \A i \in 1..(Len(text) - 1) : ~(text[i] = " " /\ text[i + 1] = " ")

\* The parts of a job text in the order C23 gives them; typed and level are
\* the parts for the job type and the experience level.
JobParts(d, typed, level) ==
    PresentParts(<<
        <<Truthy(d.title), d.title>>,
        <<Truthy(d.title), d.title>>,
        <<Truthy(d.company), <<"Company: ">> \o d.company>>,
        <<Truthy(d.location), <<"Location: ">> \o d.location>>,
        <<Truthy(d.description), SubSeq(d.description, 1, Min(Len(d.description), 500))>>,
        <<PresentList(d.skills), <<"Required skills: ">> \o Join(<<",", " ">>, d.skills)>>,
        <<Truthy(d.job_type), typed>>,
        <<Truthy(d.experience_level), level>>,
        <<d.remote, <<"Remote work available">>>> >>)

\* C23 as stated: the job text is the title twice, "Company: X",
\* "Location: X", the first 500 characters of the description,
\* "Required skills: a, b, c", the job type, the experience level and
\* "Remote work available", each only for a field that is set and not empty,
\* joined by one space, without an empty token.
C23_JobTextPartsAsStated ==
    response.op = "create_job_text" =>
        LET d == request.data
        IN /\ response.text = Join(<<" ">>, JobParts(d, d.job_type, d.experience_level))
           /\ NoEmptyToken(response.text)

\* C23, amended: as stated, except that the job type appears as
\* "Job type: X" and the experience level as "Experience: X".
C23_JobTextPartsWithLabels ==
    response.op = "create_job_text" =>
        LET d == request.data
        IN /\ response.text = Join(<<" ">>,
                                   JobParts(d, <<"Job type: ">> \o d.job_type,
                                            <<"Experience: ">> \o d.experience_level))
           /\ NoEmptyToken(response.text)

\* A job with a title, a job type and a description over 500 characters, and
\* without company, location, skills and experience level.
C23_Witness ==
    /\ response.op = "create_job_text"
    /\ request.data.title = Clerk
    /\ ~Truthy(request.data.company)
    /\ request.data.location = None
    /\ Len(request.data.description) > 500
    /\ request.data.skills = <<>>
    /\ request.data.job_type = fulltime
    /\ request.data.experience_level = <<>>
    /\ request.data.remote
    /\ response.text = Clerk \o <<" ">> \o Clerk \o <<" ">> \o LongText(500) \o <<" ">>
                       \o <<"Job type: ">> \o fulltime \o <<" ", "Remote work available">>

(***************************************************************************)
(* The callers of the embedding gateway: crud.create_job,                  *)
(* crud.create_user, crud.update_user, PUT /users/{user_id},               *)
(* POST /users/register and POST /users/{user_id}/generate-resume-embedding*)
(***************************************************************************)

MaxEmbeddedJobs == 1

\* UserCreate.model_dump(exclude={"password"}), the fields the model keeps.
UserCreateBody(name, skills, years, job_type, locations, resume_text) ==
    [skills |-> skills, preferred_locations |-> locations, name |-> name,
     resume_text |-> resume_text, experience_years |-> years, preferred_job_type |-> job_type]

\* A row of jobs as crud.create_job stores it: Job(**job_dict, embedding=embedding).
StoredJob(id, job_data, embedding) ==
    [skills |-> job_data.skills, description |-> job_data.description, title |-> job_data.title,
     location |-> job_data.location, experience_level |-> job_data.experience_level,
     remote |-> job_data.remote, id |-> id, job_type |-> job_data.job_type,
     embedding |-> embedding, company |-> job_data.company]

\* crud.create_job(db, job_data): the job text is embedded and the row stored.
CreateJobWithEmbedding(job_data) ==
    /\ Len(jobs) < MaxEmbeddedJobs
    /\ LET job_text == CreateJobText(job_data)
       IN /\ jobs' = Append(jobs, StoredJob(Len(jobs) + 1, job_data, Embedding(job_text)))
          /\ response' = ProfileResponse("create_job", NoUserId, 200, <<job_text>>)
    /\ request' = ProfileRequest(NoUserId, job_data)
    /\ scored' = <<>>
    /\ UNCHANGED <<users, now>>

\* crud.create_user(db, user_data): the profile text is embedded when one of
\* skills, resume_text and preferred_job_type is truthy; otherwise
\* resume_embedding stays None.
CreateUserWithEmbedding(user_id, user_data) ==
    /\ user_id \notin DOMAIN users
    /\ LET any == \/ Truthy(user_data.skills) /\ user_data.skills # NoneList
                  \/ Truthy(user_data.resume_text)
                  \/ Truthy(user_data.preferred_job_type)
           profile_text == CreateUserProfileText(user_data)
           db_user == UserRow(user_data.name, user_data.skills, NoneList,
                              user_data.preferred_locations, None,
                              user_data.experience_years, user_data.preferred_job_type,
                              user_data.resume_text,
                              IF any THEN Embedding(profile_text) ELSE None)
       IN /\ users' = (user_id :> db_user) @@ users
          /\ response' = ProfileResponse("create_user", user_id, 200,
                                         IF any THEN <<profile_text>> ELSE <<>>)
    /\ request' = ProfileRequest(user_id, user_data)
    /\ scored' = <<>>
    /\ UNCHANGED <<jobs, now>>

\* POST /users/register: the handler reads user_data.bio, user_data.linkedin,
\* user_data.github and user_data.portfolio, which UserCreate does not
\* declare; the AttributeError is answered 500 and no row is stored.  The
\* handler generates no embedding.
RegisterUser(user_data) ==
    /\ request' = ProfileRequest(NoUserId, user_data)
    /\ response' = ProfileResponse("register_user", NoUserId, 500, <<>>)
    /\ scored' = <<>>
    /\ UNCHANGED <<users, jobs, now>>

\* Bodies of UserCreate: no profile; skills; experience of 0 years only;
\* preferred locations only; an empty skill list with a resume.
UserCreateBodies ==
    {UserCreateBody(Asha, NoneList, NoYears, None, NoneList, None),
     UserCreateBody(Asha, <<python>>, NoYears, None, NoneList, None),
     UserCreateBody(Asha, NoneList, 0, None, NoneList, None),
     UserCreateBody(Asha, NoneList, NoYears, None, <<Chennai>>, None),
     UserCreateBody(Asha, <<>>, 3, <<>>, NoneList, PythonDeveloper)}

\* Bodies of JobCreate (title and company of at least 1 character, the
\* description of at least 10).
JobCreateBodies ==
    {JobData(Clerk, Acme, None, OfficeWork, NoneList, None, None, FALSE),
     JobData(PythonEngineer, Acme, ChennaiIndia, PythonAndSql, <<python, sql>>, fulltime,
             SeniorLevel, TRUE)}

InitEmbedding ==
    /\ users = <<>>
    /\ jobs = <<>>
    /\ now = 0
    /\ request = NoRequest
    /\ response = NoResponse
    /\ scored = <<>>

NextEmbedding ==
    \/ \E job_data \in JobCreateBodies : CreateJobWithEmbedding(job_data)
    \/ \E user_id \in UserIds, user_data \in UserCreateBodies :
           CreateUserWithEmbedding(user_id, user_data)
    \/ \E user_data \in UserCreateBodies : RegisterUser(user_data)
    \/ \E user_id \in UserIds \cup {UnknownUserId}, update_data \in UserUpdates :
           PutUser("u1", user_id, update_data)
    \/ \E user_id \in UserIds \cup {UnknownUserId}, update_data \in UserUpdates :
           UpdateUser(user_id, update_data)
    \/ \E user_id \in UserIds \cup {UnknownUserId}, resume_text \in ResumeTexts :
           GenerateResumeEmbedding("u1", user_id, resume_text)

SpecEmbedding == InitEmbedding /\ [][NextEmbedding]_vars

\* The operations that answer with the texts they embedded.
EmbeddingOps ==
    {"create_job", "create_user", "register_user", "put_user", "update_user",
     "generate_resume_embedding"}

\* C21: no operation passes the empty string to generate_embedding: when the
\* job text, the profile text or the supplied resume text is empty, the
\* gateway is not called.
C21_NoEmptyTextEmbedded ==
    response.op \in EmbeddingOps =>
        \A i \in 1..Len(response.embedded) : response.embedded[i] # <<>>

\* C26: every stored user with an embedding holds the embedding of the
\* profile text of the user's current fields.
C26_EmbeddingIsOfCurrentProfile ==
    \A id \in DOMAIN users :
        users[id].resume_embedding # None =>
            users[id].resume_embedding = Embedding(CreateUserProfileText(users[id]))

(***************************************************************************)
(* Failures of the collaborators: the handlers on a storage layer and an   *)
(* embedding gateway some of whose calls raise                             *)
(***************************************************************************)

\* The calls a handler makes to its collaborators.
UserLookup == "user_lookup"
JobsFetch == "jobs_fetch"
EmbedContent == "embed_content"
Commit == "commit"
NoCall == "none"

\* What a handler answers, with the calls it made to its collaborators in
\* the order it made them, and the call that raised (NoCall: none did).
CallsResponse(op, user_id, status, recs, calls, failed) ==
    [op |-> op, user_id |-> user_id, status |-> status, recommendations |-> recs,
     calls |-> calls, failed |-> failed]

\* Variant: the handler answers a failed call with an empty result.
OnExceptionEmptyResult(op, user_id, calls) ==
    [op |-> op, user_id |-> user_id, status |-> 200, recommendations |-> <<>>,
     calls |-> calls, failed |-> calls[Len(calls)]]

\* except Exception as e: ... raise HTTPException(status_code=500, ...), in
\* get_recommendations and in generate_resume_embedding: the call made last
\* raised, nothing is called again, the caller gets HTTP 500.
OnException(op, user_id, calls) ==
    CallsResponse(op, user_id, 500, <<>>, calls, calls[Len(calls)])

\* get_recommendations on a storage layer whose calls in `failing` raise.
\* The handler awaits db.execute(select(User)...) after the user_id check and
\* db.execute(select(Job)...) after the profile check; both are inside the
\* try block.
PostRecommendationsOnFailing(user_id, limit, failing) ==
    /\ request' = RecommendationQuery(None, user_id # NoUserId, user_id, limit)
    /\ scored' = <<>>
    /\ UNCHANGED <<users, jobs, now>>
    /\ IF user_id = NoUserId
       THEN response' = CallsResponse("post", user_id, 400, <<>>, <<>>, NoCall)
       ELSE IF UserLookup \in failing
       THEN response' = OnException("post", user_id, <<UserLookup>>)
       ELSE IF user_id \notin DOMAIN users
       THEN response' = CallsResponse("post", user_id, 404, <<>>, <<UserLookup>>, NoCall)
       ELSE
         LET user == users[user_id]
             user_skills == LowerStripAll(OrEmpty(user.skills))
             user_job_titles == LowerStripAll(OrEmpty(user.preferred_job_titles))
             user_locations == LowerStripAll(OrEmpty(user.preferred_locations))
             user_experience_level == Lower(OrBlank(user.experience_level))
         IN IF user_skills = <<>> /\ user_job_titles = <<>> /\ user_locations = <<>>
            THEN response' = CallsResponse("post", user_id, 200, <<>>, <<UserLookup>>, NoCall)
            ELSE IF JobsFetch \in failing
            THEN response' = OnException("post", user_id, <<UserLookup, JobsFetch>>)
            ELSE LET all_jobs == RecentJobs(jobs, now) IN
                   IF all_jobs = <<>>
                   THEN response' = CallsResponse("post", user_id, 200, <<>>,
                                                  <<UserLookup, JobsFetch>>, NoCall)
                   ELSE \E ord \in Orders(Range(user_skills)) :
                          LET loop == [i \in 1..Len(all_jobs) |->
                                         ScoreJob(user_skills, user_job_titles, user_locations,
                                                  user_experience_level, all_jobs[i], now, ord)]
                          IN response' =
                                 CallsResponse("post", user_id, 200,
                                               PostRanked(user_id, limit, loop).recommendations,
                                               <<UserLookup, JobsFetch>>, NoCall)

\* generate_resume_embedding on an embedding gateway and a storage layer
\* whose calls in `failing` raise.  ml_service.generate_embedding logs and
\* re-raises what genai.embed_content raised (ml_service.py 69-71); the
\* handler assigns resume_embedding only after the call returned, and rolls
\* back when the call or the commit raised.
GenerateResumeEmbeddingOnFailing(current_user, user_id, resume_text, failing) ==
    /\ current_user \in DOMAIN users
    /\ request' = ProfileRequest(user_id, [resume_text |-> resume_text])
    /\ scored' = <<>>
    /\ UNCHANGED <<jobs, now>>
    /\ IF current_user # user_id
       THEN /\ response' = CallsResponse("generate_resume_embedding", user_id, 403, <<>>,
                                         <<>>, NoCall)
            /\ UNCHANGED users
       ELSE IF ~Truthy(resume_text)
       THEN /\ response' = CallsResponse("generate_resume_embedding", user_id, 400, <<>>,
                                         <<>>, NoCall)
            /\ UNCHANGED users
       ELSE IF EmbedContent \in failing
       THEN /\ response' = OnException("generate_resume_embedding", user_id, <<EmbedContent>>)
            /\ UNCHANGED users
       ELSE IF Commit \in failing
       THEN /\ response' = OnException("generate_resume_embedding", user_id,
                                       <<EmbedContent, Commit>>)
            /\ UNCHANGED users
       ELSE /\ users' = [users EXCEPT ![user_id].resume_embedding = Embedding(resume_text)]
            /\ response' = CallsResponse("generate_resume_embedding", user_id, 200, <<>>,
                                         <<EmbedContent, Commit>>, NoCall)

\* The calls of one request that raise.
Failings == SUBSET {UserLookup, JobsFetch, EmbedContent, Commit}

FaultUsers ==
    {UserRow(Asha, <<Python_, sql>>, <<Engineer_>>, NoneList, None, NoYears, None, None, None),
     UserRow(Asha, NoneList, NoneList, NoneList, None, NoYears, None, None, None)}

\* Stored jobs: none, one, two.
FaultJobs ==
    {<<>>,
     <<JobRow(1, PythonEngineer, PythonAndSql, <<python, django>>, None, None, TRUE, 0)>>,
     <<JobRow(1, PythonEngineer, PythonAndSql, <<python, django>>, None, None, TRUE, 0),
       JobRow(2, SqlAnalyst, OfficeWork, <<SQL_>>, ChennaiIndia, SeniorLevel, FALSE, 0)>>}

InitFault ==
    /\ \E user \in FaultUsers : users = ("u1" :> user)
    /\ jobs \in FaultJobs
    /\ now = 0
    /\ request = NoRequest
    /\ response = NoResponse
    /\ scored = <<>>

NextFault ==
    \/ \E user_id \in UserIds \cup {UnknownUserId, NoUserId}, limit \in PostLimits,
          failing \in Failings :
           PostRecommendationsOnFailing(user_id, limit, failing)
    \/ \E user_id \in UserIds \cup {UnknownUserId}, resume_text \in ResumeTexts,
          failing \in Failings :
           GenerateResumeEmbeddingOnFailing("u1", user_id, resume_text, failing)

SpecFault == InitFault /\ [][NextFault]_vars

FaultOps == {"post", "generate_resume_embedding"}

\* How often call occurs in calls.
Occurrences(calls, call) == Cardinality({i \in 1..Len(calls) : calls[i] = call})

\* C24: when the user lookup, the jobs fetch or the embedding call of a
\* request raises, the request is answered with an error (HTTP 500) and no
\* recommendations; the call that raised was made once and no call was made
\* after it.
C24_FailureIsReportedWithoutRetry ==
    (response.op \in FaultOps /\ response.failed # NoCall) =>
        /\ response.status = 500
        /\ response.recommendations = <<>>
        /\ Occurrences(response.calls, response.failed) = 1
        /\ response.calls[Len(response.calls)] = response.failed

\* The jobs fetch of a POST /recommendations raised for a user with a
\* profile.
C24_Witness ==
    /\ response.op = "post"
    /\ response.failed = JobsFetch
    /\ request.user_id \in DOMAIN users

(***************************************************************************)
(* What POST /recommendations leaves alone (specification Spec: requests   *)
(* interleaved with the creation of users and jobs and with the clock)     *)
(***************************************************************************)

RECURSIVE Distinct(_)
Distinct(xs) ==
    IF xs = <<>> THEN <<>>
    ELSE LET init == Distinct(SubSeq(xs, 1, Len(xs) - 1))
             last == xs[Len(xs)]
         IN IF last \in Range(init) THEN init ELSE Append(init, last)

\* The score the scorer gives job for the requesting user when it is handed
\* user_skills for the user's skills.
ScoreWithSkills(user_skills, job) ==
    LET ord == CHOOSE o \in Orders(Range(user_skills)) : TRUE
    IN ScoreJob(user_skills, ReqTitles, ReqLocations,
                Lower(OrBlank(users[response.user_id].experience_level)),
                job, response.at, ord).score

\* C27: the score of a job is the score it gets from the user's normalised
\* skills with every repetition removed: a skill stored more than once
\* changes no score.
C27_RepeatedSkillChangesNoScore ==
    Posted =>
        \A i \in 1..Len(scored) :
            scored[i].score = ScoreWithSkills(Distinct(ReqSkills), JobOf(scored[i]))

(***************************************************************************)
(* Blank entries in the user's lists (specification SpecRules)             *)
(***************************************************************************)

\* The entries of a normalised list that are not empty.
NonBlank(xs) == SelectSeq(xs, LAMBDA x : x # <<>>)

\* The score the scorer gives job for the requesting user when the entries
\* of the user's lists that are empty after trimming are left out.
ScoreWithoutBlanks(job) ==
    LET user_skills == NonBlank(ReqSkills)
        ord == CHOOSE o \in Orders(Range(user_skills)) : TRUE
    IN ScoreJob(user_skills, NonBlank(ReqTitles), NonBlank(ReqLocations),
                Lower(OrBlank(users[response.user_id].experience_level)),
                job, response.at, ord).score

\* C28: a skill, preferred title or preferred location that is empty after
\* trimming adds no points to any job: every job scores what it scores
\* without the blank entries.
C28_BlankEntryAddsNoPoints ==
    Posted =>
        \A i \in 1..Len(scored) : scored[i].score = ScoreWithoutBlanks(JobOf(scored[i]))

(***************************************************************************)
(* The same request twice: POST /recommendations repeated over a store     *)
(* that does not change                                                    *)
(***************************************************************************)

\* Skill lists of the stored user and of the stored job: they share one,
\* two, three and four skills.
RepeatUserSkills == {<<python, sql, django, git>>, <<python, sql, django>>, <<Python_, sql>>}
RepeatJobSkills == {<<django, git, python, SQL_>>, <<python, django>>, <<SQL_, python>>}

InitRepeat ==
    /\ \E skills \in RepeatUserSkills : users = ("u1" :> User(skills, NoneList, NoneList, None))
    /\ \E skills \in RepeatJobSkills, title \in ScoreTitles, remote \in BOOLEAN :
           jobs = <<JobRow(1, title, OfficeWork, skills, None, None, remote, 0)>>
    /\ now = 0
    /\ request = NoRequest
    /\ response = NoResponse
    /\ scored = <<>>

\* Any number of requests, each by a process of the server (a restart or
\* another worker in between is not visible in the store).
NextRepeat ==
    \E limit \in PostLimits : PostRecommendationQuery(RecommendationQuery(None, TRUE, "u1", limit))

SpecRepeat == InitRepeat /\ [][NextRepeat]_vars

\* C29: two requests with the same body for the same user over the same
\* stored jobs at the same instant get the same answer: the same jobs in the
\* same order with the same scores and the same match_reasons, the skills
\* the first reason lists included.
C29_SameRequestSameAnswer ==
    [][(/\ response.op = "post" /\ response'.op = "post"
        /\ request' = request /\ users' = users /\ jobs' = jobs /\ now' = now)
       => response' = response]_vars

(***************************************************************************)
(* The two rule-based entry points side by side (specification Spec)       *)
(***************************************************************************)

\* <<job id, match_score>> of the entries POST /recommendations returns for
\* user_id and limit over the stored jobs at the time `today`.
PostScores(user_id, limit, today) ==
    LET user == users[user_id]
        user_skills == LowerStripAll(OrEmpty(user.skills))
        user_job_titles == LowerStripAll(OrEmpty(user.preferred_job_titles))
        user_locations == LowerStripAll(OrEmpty(user.preferred_locations))
        user_experience_level == Lower(OrBlank(user.experience_level))
        all_jobs == RecentJobs(jobs, today)
        ord == CHOOSE o \in Orders(Range(user_skills)) : TRUE
        loop == [i \in 1..Len(all_jobs) |->
                   ScoreJob(user_skills, user_job_titles, user_locations,
                            user_experience_level, all_jobs[i], today, ord)]
        included == SelectSeq(loop, LAMBDA s : Included(s.score))
        limited == Truncate(SortByScore([i \in 1..Len(included) |-> Entry(included[i])]), limit)
    IN IF user_skills = <<>> /\ user_job_titles = <<>> /\ user_locations = <<>>
       THEN {}
       ELSE {<<limited[i].job_id, limited[i].match_score>> : i \in 1..Len(limited)}

\* C30: for a stored user and a limit POST /recommendations accepts, GET
\* /recommendations/{user_id} succeeds and returns the jobs POST
\* /recommendations returns over the same store at the same time, each with
\* the same match_score.
C30_GetAgreesWithPost ==
    (/\ response.op = "get"
     /\ response.user_id \in DOMAIN users
     /\ response.limit >= 1) =>
        /\ response.status = 200
        /\ {<<e.job_id, e.match_score>> : e \in Range(response.recommendations)}
               = PostScores(response.user_id, response.limit, response.at)

====
